---- MODULE Spec2Model ----
(***************************************************************************)
(* A model of the caddy-auth-saml plugin: AuthProvider (plugin.go),        *)
(* AzureIdp (azure.go) and UserInterface (ui.go).                          *)
(*                                                                         *)
(* Go strings are modelled as sequences of tokens (<<>> is ""), so that    *)
(* strings.Contains, strings.HasSuffix, strings.Join and strconv.Atoi are  *)
(* computed rather than assumed.  A nil error is the empty message <<>>.   *)
(***************************************************************************)
EXTENDS Integers, Sequences, FiniteSets, TLC

VARIABLES
    m,                  \* the AuthProvider (configuration, Azure, UI)
    env,                \* process environment: JWT_TOKEN_SECRET
    phase,              \* "new" | "provisioned" | "ready" | "failed" | "crashed"
    valErr,             \* the error AuthProvider.Validate returned
    inflight,           \* the locals of the Authenticate calls that run side by side
    pc,                 \* position inside AuthProvider.Authenticate
    r,                  \* the *http.Request being served
    w,                  \* the http.ResponseWriter of that request
    uiArgs,             \* local uiArgs
    userIdentity,       \* local userIdentity
    userToken,          \* local userToken
    err,                \* local err
    userAuthenticated,  \* local userAuthenticated
    uiErr,              \* local uiErr
    ret,                \* what Authenticate returned (user, ok, err)
    azRun,              \* record of the AzureIdp.Authenticate call of this request:
                        \* its result and the time.Now() it read
    trace               \* the steps this request has gone through, in order

vars == <<m, env, phase, valErr, inflight, pc, r, w, uiArgs, userIdentity, userToken, err,
          userAuthenticated, uiErr, ret, azRun, trace>>

reqVars == <<pc, r, w, uiArgs, userIdentity, userToken, err,
             userAuthenticated, uiErr, ret, azRun, trace>>

-----------------------------------------------------------------------------
(* Bounds of the model *)

MaxSP == 2          \* at most this many configured ACS URLs
MaxAttrs == 2       \* at most this many attributes in an assertion (Spec)
MaxClaimAttrs == 4  \* at most this many attributes in an assertion (SpecClaims)
MaxClock == 1       \* time.Now() is drawn from 0..MaxClock
MaxSessionAttrs == 3 \* at most this many MaxSessionDuration attributes (SpecExpiry)
MaxMapperAttrs == 3  \* at most this many attributes in two statements (SpecMapper)
MaxRequests == 2    \* at most this many requests in flight at once (SpecParallel)

\* Go's int and time.Duration are 64-bit words and time.Second is 10^9
\* nanoseconds.  The model keeps the same two's-complement arithmetic in a
\* narrower word with a coarser tick, wide enough for the default expiry.
DurationBits == 24      \* width of int and of time.Duration
Second == 1000          \* ticks of a time.Duration per second

(* Program constants *)

DefaultExpiry == 900

-----------------------------------------------------------------------------
(* Go values *)

Nil == [nil |-> TRUE]
NoErr == <<>>
EmptyString == <<>>

RECURSIVE SeqsUpTo(_, _)
SeqsUpTo(S, n) ==
    IF n = 0 THEN {<<>>}
    ELSE LET shorter == SeqsUpTo(S, n - 1)
         IN  shorter \cup {Append(s, x) : s \in {t \in shorter : Len(t) = n - 1}, x \in S}

\* strings.Contains(s, sub)
Contains(s, sub) ==
    \E i \in 1..(Len(s) + 1) :
        /\ i + Len(sub) - 1 <= Len(s)
        /\ SubSeq(s, i, i + Len(sub) - 1) = sub

\* strings.HasSuffix(s, suf)
HasSuffix(s, suf) ==
    /\ Len(suf) <= Len(s)
    /\ SubSeq(s, Len(s) - Len(suf) + 1, Len(s)) = suf

\* strings.HasPrefix(s, pre)
HasPrefix(s, pre) ==
    /\ Len(pre) <= Len(s)
    /\ SubSeq(s, 1, Len(pre)) = pre

\* strings.Join(elems, sep)
RECURSIVE Join(_, _)
Join(elems, sep) ==
    IF Len(elems) = 0 THEN <<>>
    ELSE IF Len(elems) = 1 THEN elems[1]
    ELSE elems[1] \o sep \o Join(Tail(elems), sep)

-----------------------------------------------------------------------------
(* URLs: net/url.Parse and URL.String on token strings *)

BadEscape == "%zz"          \* a token url.Parse rejects (invalid URL escape)

\* url.Parse(s): (nil, error) on an invalid escape, otherwise the parsed URL
UrlParse(s) ==
    IF \E i \in 1..Len(s) : s[i] = BadEscape
    THEN [err |-> <<"parse">> \o s \o <<": invalid URL escape">>, url |-> Nil]
    ELSE IF Len(s) >= 2 /\ s[2] = "://"
    THEN [err |-> NoErr,
          url |-> [Scheme |-> s[1],
                   Host |-> IF Len(s) >= 3 THEN s[3] ELSE "",
                   Path |-> IF Len(s) >= 4 THEN SubSeq(s, 4, Len(s)) ELSE <<>>]]
    ELSE [err |-> NoErr, url |-> [Scheme |-> "", Host |-> "", Path |-> s]]

\* URL.String()
UrlString(u) ==
    (IF u.Scheme = "" THEN <<>> ELSE <<u.Scheme, "://">>)
        \o (IF u.Host = "" THEN <<>> ELSE <<u.Host>>)
        \o u.Path

-----------------------------------------------------------------------------
(* The world outside the process: files, the network *)

IdpCert == "IDP-SIGNING-CERT"
OtherCert == "OTHER-CERT"

GoodCertLocation == <<"/etc/saml/idp.pem">>
MissingCertLocation == <<"/etc/saml/missing.pem">>

\* readCertFile (utils.go): the certificate stored at a location, or an error
readCertFile(location) ==
    IF location = GoodCertLocation
    THEN [err |-> NoErr, cert |-> IdpCert]
    ELSE [err |-> <<"open">> \o location \o <<": no such file or directory">>, cert |-> ""]

\* IdP metadata documents: IDPSSODescriptors, each with its KeyDescriptors
Metadata(nDescriptors) ==
    [IDPSSODescriptors |-> [i \in 1..nDescriptors |-> [KeyDescriptors |-> <<>>]]]

\* an IdP metadata document that publishes a signing key of its own
KeyedMetadata ==
    [IDPSSODescriptors |->
        << [KeyDescriptors |-> << [Use |-> "signing", Certificate |-> OtherCert] >>] >>]

GoodMetadataFile == <<"/etc/saml/metadata.xml">>
BadMetadataFile == <<"/etc/saml/garbage.xml">>
NoDescriptorMetadataFile == <<"/etc/saml/no-idp-descriptor.xml">>
KeyedMetadataFile == <<"/etc/saml/keyed-metadata.xml">>
UnreachableHost == "unreachable.example"

\* tokens whose characters begin with "http"
HttpPrefixed == {"http", "https"}

\* samlsp.FetchMetadata: the metadata served at a URL
FetchMetadata(url) ==
    IF url.Host = UnreachableHost
    THEN [err |-> <<"Get">> \o UrlString(url) \o <<": no such host">>, metadata |-> Nil]
    ELSE [err |-> NoErr, metadata |-> Metadata(1)]

\* ioutil.ReadFile followed by samlsp.ParseMetadata
ReadMetadataFile(location) ==
    IF location = GoodMetadataFile
    THEN [err |-> NoErr, metadata |-> Metadata(1)]
    ELSE IF location = NoDescriptorMetadataFile
    THEN [err |-> NoErr, metadata |-> Metadata(0)]
    ELSE IF location = KeyedMetadataFile
    THEN [err |-> NoErr, metadata |-> KeyedMetadata]
    ELSE IF location = BadMetadataFile
    THEN [err |-> <<"EOF">>, metadata |-> Nil]
    ELSE [err |-> <<"open">> \o location \o <<": no such file or directory">>, metadata |-> Nil]

-----------------------------------------------------------------------------
(* AzureIdp.Validate *)

MetadataLocationFor(tenant) ==
    <<"https", "://", "login.microsoftonline.com", "/", tenant,
      "/federationmetadata/2007-06/federationmetadata.xml">>

LoginURLFor(az) ==
    <<"https", "://", "account.activedirectory.windowsazure.com",
      "/applications/signin/", az.ApplicationName, "/", az.ApplicationID,
      "?tenantId=", az.TenantID>>

\* a loop body that registers the binding without adding the key descriptor
RegisterBindingWithoutCert(st, acsURL, idpSignCert) ==
    LET az == st.az
        cfgAcsURL == UrlParse(acsURL).url
        entityID == UrlParse(az.EntityID).url
        metadataURL == IF az.IdpMetadataURL # Nil THEN az.IdpMetadataURL ELSE entityID
        sp == [AcsURL |-> cfgAcsURL, MetadataURL |-> metadataURL, AllowIDPInitiated |-> TRUE]
    IN  IF st.panic THEN st
        ELSE IF cfgAcsURL = Nil \/ entityID = Nil
        THEN [st EXCEPT !.panic = TRUE]
        ELSE [st EXCEPT !.az = [az EXCEPT !.ServiceProviders = Append(@, sp)]]

\* one pass of the loop body `for _, acsURL := range az.AssertionConsumerServiceURLs`
\* st: [az, panic]; the binding shares the IdP metadata by pointer
RegisterBinding(st, acsURL, idpSignCert) ==
    LET az == st.az
        cfgAcsURL == UrlParse(acsURL).url
        entityID == UrlParse(az.EntityID).url
        metadataURL == IF az.IdpMetadataURL # Nil THEN az.IdpMetadataURL ELSE entityID
        md == az.IDPMetadata
        md2 == IF Len(md.IDPSSODescriptors) = 0 THEN md
               ELSE [md EXCEPT !.IDPSSODescriptors[1].KeyDescriptors =
                        Append(@, [Use |-> "signing", Certificate |-> idpSignCert])]
        sp == [AcsURL |-> cfgAcsURL, MetadataURL |-> metadataURL, AllowIDPInitiated |-> TRUE]
    IN  IF st.panic THEN st
        ELSE IF cfgAcsURL = Nil \/ entityID = Nil
        THEN [st EXCEPT !.panic = TRUE]    \* nil pointer dereference
        ELSE [st EXCEPT !.az = [az EXCEPT !.IDPMetadata = md2,
                                          !.ServiceProviders = Append(@, sp)]]

RECURSIVE RegisterBindings(_, _, _)
RegisterBindings(st, urls, idpSignCert) ==
    IF Len(urls) = 0 THEN st
    ELSE RegisterBindings(RegisterBinding(st, Head(urls), idpSignCert), Tail(urls), idpSignCert)

\* AzureIdp.Validate returns [az, err, panic]; az is the receiver as left behind
AzFailed(az, e) == [az |-> az, err |-> e, panic |-> FALSE]

\* lines 249-283: the registry loop and the final return
ValidateBindings(az, idpSignCert) ==
    [az |-> RegisterBindings([az |-> az, panic |-> FALSE],
                             az.AssertionConsumerServiceURLs, idpSignCert).az,
     err |-> NoErr,
     panic |-> RegisterBindings([az |-> az, panic |-> FALSE],
                                az.AssertionConsumerServiceURLs, idpSignCert).panic]

\* lines 232-235 and 239-246: the metadata was fetched or read, or was not
ValidateWithMetadata(az, fetched, idpSignCert) ==
    IF fetched.err # NoErr THEN AzFailed(az, fetched.err)
    ELSE ValidateBindings([az EXCEPT !.IDPMetadata = fetched.metadata], idpSignCert)

\* lines 221-231: the metadata location is a URL
ValidateMetadataURL(az, parsed, idpSignCert) ==
    IF parsed.err # NoErr THEN AzFailed(az, parsed.err)
    ELSE ValidateWithMetadata([az EXCEPT !.IdpMetadataURL = parsed.url],
                              FetchMetadata(parsed.url), idpSignCert)

\* lines 218-247
ValidateMetadata(az, idpSignCert) ==
    IF Len(az.IdpMetadataLocation) > 0 /\ az.IdpMetadataLocation[1] \in HttpPrefixed
    THEN ValidateMetadataURL(az, UrlParse(az.IdpMetadataLocation), idpSignCert)
    ELSE ValidateWithMetadata(az, ReadMetadataFile(az.IdpMetadataLocation), idpSignCert)

\* lines 203-216
ValidateSignCert(az, cert) ==
    IF cert.err # NoErr THEN AzFailed(az, cert.err)
    ELSE ValidateMetadata([az EXCEPT !.LoginURL = LoginURLFor(az)], cert.cert)

\* lines 194-203
ValidateSignCertLocation(az) ==
    IF az.IdpSignCertLocation = EmptyString
    THEN AzFailed(az, <<"Azure AD IdP Signing Certificate not found">>)
    ELSE ValidateSignCert(az, readCertFile(az.IdpSignCertLocation))

\* a validation that does not look at the application name
AzureValidateWithoutName(az) ==
    IF Len(az.AssertionConsumerServiceURLs) = 0 THEN AzFailed(az, <<"ACS URLs are missing">>)
    ELSE IF az.TenantID = "" THEN AzFailed(az, <<"Azure AD Tenant ID not found">>)
    ELSE IF az.ApplicationID = "" THEN AzFailed(az, <<"Azure AD Application ID not found">>)
    ELSE ValidateSignCertLocation(
             IF az.IdpMetadataLocation = EmptyString
             THEN [az EXCEPT !.IdpMetadataLocation = MetadataLocationFor(az.TenantID)]
             ELSE az)

\* AzureIdp.Validate
AzureValidate(az) ==
    IF Len(az.AssertionConsumerServiceURLs) = 0 THEN AzFailed(az, <<"ACS URLs are missing">>)
    ELSE IF az.TenantID = "" THEN AzFailed(az, <<"Azure AD Tenant ID not found">>)
    ELSE IF az.ApplicationID = "" THEN AzFailed(az, <<"Azure AD Application ID not found">>)
    ELSE IF az.ApplicationName = ""
    THEN AzFailed(az, <<"Azure AD Application Name not found">>)
    ELSE ValidateSignCertLocation(
             IF az.IdpMetadataLocation = EmptyString
             THEN [az EXCEPT !.IdpMetadataLocation = MetadataLocationFor(az.TenantID)]
             ELSE az)

-----------------------------------------------------------------------------
(* UserInterface (ui.go) *)

GoodTemplateLocation == <<"/etc/saml/login.tmpl">>
BrokenTemplateLocation == <<"/etc/saml/broken.tmpl">>       \* parses, fails when executed
UnparsableTemplateLocation == <<"/etc/saml/unparsable.tmpl">>

\* readFile (utils.go) followed by template.Parse: [err, body]
ParseTemplateAt(location) ==
    IF location = EmptyString THEN [err |-> NoErr, body |-> "defaultUserInterface"]
    ELSE IF location = GoodTemplateLocation THEN [err |-> NoErr, body |-> "custom"]
    ELSE IF location = BrokenTemplateLocation THEN [err |-> NoErr, body |-> "broken"]
    ELSE IF location = UnparsableTemplateLocation
    THEN [err |-> <<"template: AuthForm: unexpected EOF">>, body |-> ""]
    ELSE [err |-> <<"open">> \o location \o <<": no such file or directory">>, body |-> ""]

NewUserInterface ==
    [TemplateLocation |-> EmptyString, Template |-> Nil, Title |-> "",
     Links |-> <<>>, AuthEndpoint |-> EmptyString]

\* UserInterface.loadTemplates: [ui, err]
loadTemplates(ui) ==
    LET t == ParseTemplateAt(ui.TemplateLocation)
    IN  IF t.err # NoErr THEN [ui |-> ui, err |-> t.err]
        ELSE [ui |-> [ui EXCEPT !.Template = [name |-> "AuthForm", body |-> t.body]],
              err |-> NoErr]

\* UserInterface.validate: [ui, err]
validate(ui) ==
    LET l == loadTemplates(ui)
    IN  IF l.err # NoErr THEN l
        ELSE [ui |-> IF l.ui.Title = "" THEN [l.ui EXCEPT !.Title = "Sign In"] ELSE l.ui,
              err |-> NoErr]

\* UserInterface.newUserInterfaceArgs
newUserInterfaceArgs(ui) ==
    [Title |-> ui.Title, Links |-> ui.Links, AuthEndpoint |-> ui.AuthEndpoint,
     Message |-> EmptyString, Authenticated |-> FALSE]

\* template.Execute(b, args): [err, bytes]
Execute(t, args) ==
    IF t.body = "broken"
    THEN [err |-> <<"template: AuthForm: can't evaluate field">>, bytes |-> <<>>]
    ELSE [err |-> NoErr, bytes |-> <<[html |-> t.body, args |-> args]>>]

-----------------------------------------------------------------------------
(* http.ResponseWriter: the header map the handler edits, and what has been *)
(* sent.  The first WriteHeader or Write commits the status line and a      *)
(* snapshot of the header map; later edits of the map are not sent.         *)

NewResponseWriter ==
    [header |-> <<>>, committed |-> FALSE, status |-> 0, sent |-> <<>>, body |-> <<>>]

HeaderSet(rw, key, value) ==
    [rw EXCEPT !.header = [k \in (DOMAIN @) \cup {key} |-> IF k = key THEN value ELSE @[k]]]

WriteHeader(rw, code) ==
    IF rw.committed THEN rw
    ELSE [rw EXCEPT !.committed = TRUE, !.status = code, !.sent = rw.header]

Write(rw, bytes) ==
    LET c == WriteHeader(rw, 200)
    IN  [c EXCEPT !.body = @ \o bytes]

\* UserInterface.render: [w, err]
render(ui, rw, args) ==
    LET x == Execute(ui.Template, args)
    IN  IF x.err # NoErr
        THEN [w |-> Write(WriteHeader(rw, 500), <<[html |-> "Internal Server Error", args |-> Nil]>>),
              err |-> x.err]
        ELSE [w |-> Write(HeaderSet(HeaderSet(rw, "Cache-Control",
                                              <<"no-cache, no-store, must-revalidate">>),
                                    "Content-Type", <<"text/html">>),
                          x.bytes),
              err |-> NoErr]

-----------------------------------------------------------------------------
(* AuthProvider.Validate (plugin.go) *)

\* AuthProvider.Validate returns [m, err, panic]; m is the receiver as left behind
Failed(mod, e) == [m |-> mod, err |-> e, panic |-> FALSE]

\* lines 118-128
ValidateLinks(mod) ==
    [m |-> IF mod.Azure # Nil
           THEN [mod EXCEPT !.UI.Links =
                    Append(@, [Link |-> mod.Azure.LoginURL, Title |-> "Office 365",
                               Style |-> "fa-windows"])]
           ELSE mod,
     err |-> NoErr, panic |-> FALSE]

\* lines 114-118
ValidateUIResult(mod, uiv) ==
    IF uiv.err # NoErr
    THEN Failed(mod, <<mod.Name, ": UI settings validation error: ">> \o uiv.err)
    ELSE ValidateLinks([mod EXCEPT !.UI = [uiv.ui EXCEPT !.AuthEndpoint = mod.AuthURLPath]])

\* lines 105-114
ValidateUI(mod) ==
    IF mod.idpProviderCount = 0
    THEN Failed(mod, <<mod.Name, ": no valid IdP configuration found">>)
    ELSE IF mod.UI = Nil
    THEN ValidateUIResult([mod EXCEPT !.UI = NewUserInterface], validate(NewUserInterface))
    ELSE ValidateUIResult(mod, validate(mod.UI))

\* lines 99-103
ValidateAzureResult(mod, azv) ==
    IF azv.panic THEN [m |-> [mod EXCEPT !.Azure = azv.az], err |-> NoErr, panic |-> TRUE]
    ELSE IF azv.err # NoErr
    THEN Failed([mod EXCEPT !.Azure = azv.az], <<mod.Name, ": ">> \o azv.err)
    ELSE ValidateUI([mod EXCEPT !.Azure = azv.az, !.idpProviderCount = @ + 1])

\* lines 95-103: Validate Azure AD settings
ValidateAzure(mod) ==
    IF mod.Azure = Nil THEN ValidateUI(mod)
    ELSE ValidateAzureResult(mod, AzureValidate([mod.Azure EXCEPT !.Jwt = mod.Jwt]))

\* lines 77-93
ValidateJwt(mod, environ) ==
    IF mod.Jwt.TokenSecret = EmptyString /\ environ.JWT_TOKEN_SECRET = EmptyString
    THEN Failed(mod, <<mod.Name, ": jwt_token_secret must be defined">>)
    ELSE ValidateAzure(IF mod.Jwt.TokenIssuer = EmptyString
                       THEN [mod EXCEPT !.Jwt.TokenIssuer = <<"localhost">>] ELSE mod)

\* lines 65-75
ValidateAuthURL(mod, environ) ==
    IF mod.AuthURLPath = EmptyString
    THEN Failed(mod, <<mod.Name, ": authentication endpoint cannot be empty">>)
    ELSE ValidateJwt(IF mod.Jwt.TokenName = EmptyString
                     THEN [mod EXCEPT !.Jwt.TokenName = <<"JWT_TOKEN">>] ELSE mod,
                     environ)

\* AuthProvider.Validate
Validate(mod, environ) == ValidateAuthURL([mod EXCEPT !.idpProviderCount = 0], environ)

-----------------------------------------------------------------------------
(* Requests *)

\* http.Header.Get
HeaderGet(req, key) == IF key \in DOMAIN req.Header THEN req.Header[key] ELSE EmptyString

\* http.Request.FormValue
FormValue(req, key) == IF key \in DOMAIN req.Form THEN req.Form[key] ELSE EmptyString

\* base64.StdEncoding: one encoded symbol per chunk of bytes; "illegal" symbols
\* are outside the base64 alphabet
Encoded(chunk) == [sym |-> "b64", of |-> chunk]
IllegalSymbol == [sym |-> "illegal", of |-> Nil]

EncodeToString(bytes) == [i \in 1..Len(bytes) |-> Encoded(bytes[i])]

\* base64.StdEncoding.DecodeString: [err, bytes]
DecodeString(str) ==
    IF \E i \in 1..Len(str) : str[i].sym # "b64"
    THEN LET at == CHOOSE i \in 1..Len(str) :
                       /\ str[i].sym # "b64"
                       /\ \A j \in 1..(i - 1) : str[j].sym = "b64"
         IN  [err |-> <<"illegal base64 data at input byte ", ToString(at - 1)>>,
              bytes |-> <<>>]
    ELSE [err |-> NoErr, bytes |-> [i \in 1..Len(str) |-> str[i].of]]

-----------------------------------------------------------------------------
(* samllib.ServiceProvider.ParseXMLResponse.  A decoded response is one     *)
(* chunk, the XML document: [kind, Destination, SignedBy,                   *)
(* AttributeStatements].  The text of the library's error is kept distinct  *)
(* per binding so that the order of accumulated errors can be observed.     *)

TrustedCerts(md) ==
    UNION {{md.IDPSSODescriptors[i].KeyDescriptors[j].Certificate :
              j \in 1..Len(md.IDPSSODescriptors[i].KeyDescriptors)} :
           i \in 1..Len(md.IDPSSODescriptors)}

\* [err, assertion]
ParseXMLResponse(sp, md, raw) ==
    LET bad(why) == [err |-> <<"Authentication failed: ", why, " at ">> \o UrlString(sp.AcsURL),
                     assertion |-> Nil]
    IN  IF Len(raw) # 1 \/ raw[1].kind # "Response" THEN bad("cannot parse response")
        ELSE IF ~sp.AllowIDPInitiated THEN bad("unsolicited response")
        ELSE IF raw[1].Destination # UrlString(sp.AcsURL) THEN bad("destination mismatch")
        ELSE IF raw[1].SignedBy \notin TrustedCerts(md) THEN bad("signature not trusted")
        ELSE [err |-> NoErr,
              assertion |-> [AttributeStatements |-> raw[1].AttributeStatements]]

-----------------------------------------------------------------------------
(* Machine integers *)

MaxInt == 2 ^ (DurationBits - 1) - 1
MinInt == 0 - 2 ^ (DurationBits - 1)

\* the value a signed word holds after an arithmetic result x
Wrap(x) ==
    IF x % (2 ^ DurationBits) > MaxInt
    THEN (x % (2 ^ DurationBits)) - 2 ^ DurationBits
    ELSE x % (2 ^ DurationBits)

-----------------------------------------------------------------------------
(* strconv.Atoi on strings of one-character tokens *)

Digits == <<"0", "1", "2", "3", "4", "5", "6", "7", "8", "9">>

DigitValue(c) == (CHOOSE i \in 1..10 : Digits[i] = c) - 1

IsDigit(c) == \E i \in 1..10 : Digits[i] = c

RECURSIVE DigitsValue(_, _)
DigitsValue(str, acc) ==
    IF Len(str) = 0 THEN acc
    ELSE DigitsValue(Tail(str), 10 * acc + DigitValue(Head(str)))

\* strconv.Atoi: [ok, n]; a syntax error or a value out of the range of int
\* is an error
Atoi(str) ==
    LET signed == Len(str) > 0 /\ Head(str) \in {"+", "-"}
        body == IF signed THEN Tail(str) ELSE str
        n == IF signed /\ Head(str) = "-" THEN 0 - DigitsValue(body, 0)
             ELSE DigitsValue(body, 0)
    IN  IF Len(body) = 0 \/ \E i \in 1..Len(body) : ~IsDigit(body[i])
        THEN [ok |-> FALSE, n |-> 0]
        ELSE IF n < MinInt \/ n > MaxInt THEN [ok |-> FALSE, n |-> 0]
        ELSE [ok |-> TRUE, n |-> n]

-----------------------------------------------------------------------------
(* The claims mapper: the attribute scan of AzureIdp.Authenticate *)

SuffixMaxSessionDuration == <<"Attributes/", "MaxSessionDuration">>
SuffixDisplayName == <<"identity/claims/", "displayname">>
SuffixEmailAddress == <<"identity/claims/", "emailaddress">>
SuffixIdentityProvider == <<"identity/claims/", "identityprovider">>
SuffixName == <<"identity/claims/", "name">>
SuffixRole == <<"Attributes/", "Role">>

\* time.Now().Add(time.Duration(multiplier) * time.Second).Unix(): the
\* product wraps in the Duration word; Add and Unix work in whole seconds
ExpiryAfter(now, multiplier) == now + (Wrap(multiplier * Second) \div Second)

\* UserClaims{} with the default expiry
NewClaims(now) ==
    [ExpiresAt |-> ExpiryAfter(now, DefaultExpiry), Name |-> EmptyString, Email |-> EmptyString,
     Origin |-> EmptyString, Subject |-> EmptyString, Roles |-> <<>>,
     Issuer |-> EmptyString]

\* a scan that keeps only the first value of a Role attribute
ScanAttributeFirstRole(claims, attrEntry, now) ==
    IF Len(attrEntry.Values) = 0 THEN claims
    ELSE IF HasSuffix(attrEntry.Name, SuffixMaxSessionDuration)
    THEN IF ~Atoi(attrEntry.Values[1]).ok THEN claims
         ELSE [claims EXCEPT !.ExpiresAt = ExpiryAfter(now, Atoi(attrEntry.Values[1]).n)]
    ELSE IF HasSuffix(attrEntry.Name, SuffixDisplayName)
    THEN [claims EXCEPT !.Name = attrEntry.Values[1]]
    ELSE IF HasSuffix(attrEntry.Name, SuffixEmailAddress)
    THEN [claims EXCEPT !.Email = attrEntry.Values[1]]
    ELSE IF HasSuffix(attrEntry.Name, SuffixIdentityProvider)
    THEN [claims EXCEPT !.Origin = attrEntry.Values[1]]
    ELSE IF HasSuffix(attrEntry.Name, SuffixName)
    THEN [claims EXCEPT !.Subject = attrEntry.Values[1]]
    ELSE IF HasSuffix(attrEntry.Name, SuffixRole)
    THEN [claims EXCEPT !.Roles = Append(@, attrEntry.Values[1])]
    ELSE claims

\* a scan that ignores the error of strconv.Atoi and goes on with the zero it returns
ScanAttributeIgnoringAtoiError(claims, attrEntry, now) ==
    IF Len(attrEntry.Values) = 0 THEN claims
    ELSE IF HasSuffix(attrEntry.Name, SuffixMaxSessionDuration)
    THEN [claims EXCEPT !.ExpiresAt = ExpiryAfter(now, Atoi(attrEntry.Values[1]).n)]
    ELSE IF HasSuffix(attrEntry.Name, SuffixDisplayName)
    THEN [claims EXCEPT !.Name = attrEntry.Values[1]]
    ELSE IF HasSuffix(attrEntry.Name, SuffixEmailAddress)
    THEN [claims EXCEPT !.Email = attrEntry.Values[1]]
    ELSE IF HasSuffix(attrEntry.Name, SuffixIdentityProvider)
    THEN [claims EXCEPT !.Origin = attrEntry.Values[1]]
    ELSE IF HasSuffix(attrEntry.Name, SuffixName)
    THEN [claims EXCEPT !.Subject = attrEntry.Values[1]]
    ELSE IF HasSuffix(attrEntry.Name, SuffixRole)
    THEN [claims EXCEPT !.Roles = @ \o attrEntry.Values]
    ELSE claims

\* a scan in which a single-valued claim, once set, is not overwritten
ScanAttributeKeepingFirst(claims, attrEntry, now) ==
    IF Len(attrEntry.Values) = 0 THEN claims
    ELSE IF HasSuffix(attrEntry.Name, SuffixMaxSessionDuration)
    THEN IF ~Atoi(attrEntry.Values[1]).ok THEN claims
         ELSE [claims EXCEPT !.ExpiresAt = ExpiryAfter(now, Atoi(attrEntry.Values[1]).n)]
    ELSE IF HasSuffix(attrEntry.Name, SuffixDisplayName)
    THEN [claims EXCEPT !.Name = IF @ = EmptyString THEN attrEntry.Values[1] ELSE @]
    ELSE IF HasSuffix(attrEntry.Name, SuffixEmailAddress)
    THEN [claims EXCEPT !.Email = IF @ = EmptyString THEN attrEntry.Values[1] ELSE @]
    ELSE IF HasSuffix(attrEntry.Name, SuffixIdentityProvider)
    THEN [claims EXCEPT !.Origin = IF @ = EmptyString THEN attrEntry.Values[1] ELSE @]
    ELSE IF HasSuffix(attrEntry.Name, SuffixName)
    THEN [claims EXCEPT !.Subject = IF @ = EmptyString THEN attrEntry.Values[1] ELSE @]
    ELSE IF HasSuffix(attrEntry.Name, SuffixRole)
    THEN [claims EXCEPT !.Roles = @ \o attrEntry.Values]
    ELSE claims

\* the body of the inner loop, for one attrEntry
ScanAttribute(claims, attrEntry, now) ==
    IF Len(attrEntry.Values) = 0 THEN claims
    ELSE IF HasSuffix(attrEntry.Name, SuffixMaxSessionDuration)
    THEN LET multiplier == Atoi(attrEntry.Values[1])
         IN  IF ~multiplier.ok THEN claims
             ELSE [claims EXCEPT !.ExpiresAt = ExpiryAfter(now, multiplier.n)]
    ELSE IF HasSuffix(attrEntry.Name, SuffixDisplayName)
    THEN [claims EXCEPT !.Name = attrEntry.Values[1]]
    ELSE IF HasSuffix(attrEntry.Name, SuffixEmailAddress)
    THEN [claims EXCEPT !.Email = attrEntry.Values[1]]
    ELSE IF HasSuffix(attrEntry.Name, SuffixIdentityProvider)
    THEN [claims EXCEPT !.Origin = attrEntry.Values[1]]
    ELSE IF HasSuffix(attrEntry.Name, SuffixName)
    THEN [claims EXCEPT !.Subject = attrEntry.Values[1]]
    ELSE IF HasSuffix(attrEntry.Name, SuffixRole)
    THEN [claims EXCEPT !.Roles = @ \o attrEntry.Values]
    ELSE claims

\* for _, attrEntry := range attrStatement.Attributes
RECURSIVE ScanAttributes(_, _, _)
ScanAttributes(claims, attributes, now) ==
    IF Len(attributes) = 0 THEN claims
    ELSE ScanAttributes(ScanAttribute(claims, Head(attributes), now), Tail(attributes), now)

\* for _, attrStatement := range samlAssertions.AttributeStatements
RECURSIVE ScanStatements(_, _, _)
ScanStatements(claims, statements, now) ==
    IF Len(statements) = 0 THEN claims
    ELSE ScanStatements(ScanAttributes(claims, Head(statements).Attributes, now),
                        Tail(statements), now)

\* fmt's %v of a UserClaims
FormatClaims(claims) ==
    <<"{">> \o claims.Email \o <<" ">> \o claims.Name \o <<" ">> \o claims.Subject
        \o <<" ">> \o claims.Origin \o <<" [">> \o Join(claims.Roles, <<" ">>)
        \o <<"] ">> \o claims.Issuer \o <<" ", ToString(claims.ExpiresAt), "}">>

-----------------------------------------------------------------------------
(* The token issuer: jwt.NewWithClaims(HS512, claims).SignedString(key).    *)
(* HMAC signing accepts every []byte key, the empty one included; signErr   *)
(* stands for a failure inside the library.                                 *)

\* [err, token]
SignedString(claims, key, signErr) ==
    IF signErr THEN [err |-> <<"signing failed">>, token |-> EmptyString]
    ELSE [err |-> NoErr, token |-> <<[alg |-> "HS512", claims |-> claims, key |-> key]>>]

-----------------------------------------------------------------------------
(* AzureIdp.Authenticate (azure.go).  Results are [user, token, err] plus    *)
(* what the call did: tried (the bindings offered the response, in order),   *)
(* used (the binding whose assertion was mapped, 0 if none), claims (the     *)
(* claims record built, Nil if none) and steps (the pipeline stages run).    *)

AzResult(user, token, e, tried, used, claims, steps) ==
    [user |-> user, token |-> token, err |-> e, tried |-> tried, used |-> used,
     claims |-> claims, steps |-> steps]

\* lines 141-145: the outcome of signing
IssueResult(claims, signed, tried, i) ==
    IF signed.err # NoErr
    THEN AzResult(Nil, EmptyString,
                  <<"Failed to issue JWT token with ">> \o FormatClaims(claims)
                      \o <<" claims: ">> \o signed.err,
                  tried, i, claims, <<"validate", "map", "sign">>)
    ELSE AzResult([ID |-> claims.Email,
                   Metadata |-> [name |-> claims.Name, email |-> claims.Email,
                                 roles |-> Join(claims.Roles, <<" ">>)]],
                  signed.token, NoErr, tried, i, claims, <<"validate", "map", "sign">>)

\* lines 131-145: the identity and the token
Issue(az, claims, signErr, tried, i) ==
    IssueResult(claims, SignedString(claims, az.Jwt.TokenSecret, signErr), tried, i)

\* a check that takes the email alone as mandatory
CheckMandatoryEmailOnly(az, claims, signErr, tried, i) ==
    IF claims.Email = EmptyString
    THEN AzResult(Nil, EmptyString,
                  <<"The Azure AD authorization failed, mandatory attributes not found: ">>
                      \o FormatClaims(claims),
                  tried, i, claims, <<"validate", "map">>)
    ELSE Issue(az,
               IF az.Jwt.TokenIssuer # EmptyString
               THEN [claims EXCEPT !.Issuer = az.Jwt.TokenIssuer] ELSE claims,
               signErr, tried, i)

\* lines 123-129: the mandatory attributes and the issuer
CheckMandatory(az, claims, signErr, tried, i) ==
    IF claims.Email = EmptyString \/ claims.Name = EmptyString
    THEN AzResult(Nil, EmptyString,
                  <<"The Azure AD authorization failed, mandatory attributes not found: ">>
                      \o FormatClaims(claims),
                  tried, i, claims, <<"validate", "map">>)
    ELSE Issue(az,
               IF az.Jwt.TokenIssuer # EmptyString
               THEN [claims EXCEPT !.Issuer = az.Jwt.TokenIssuer] ELSE claims,
               signErr, tried, i)

\* the loop body after a successful ParseXMLResponse (lines 73-145)
MapAndIssue(az, samlAssertions, now, signErr, tried, i) ==
    CheckMandatory(az, ScanStatements(NewClaims(now), samlAssertions.AttributeStatements, now),
                   signErr, tried, i)

\* for _, sp := range az.ServiceProviders, from binding i on (lines 66-147)
RECURSIVE ScanBindings(_, _, _, _, _, _, _)

\* a scan that remembers only the latest binding's error
AfterParseLastError(az, samlpRespRaw, now, signErr, spErrors, tried, i, parsed) ==
    IF parsed.err # NoErr
    THEN ScanBindings(az, samlpRespRaw, now, signErr,
                      <<parsed.err>>, Append(tried, i), i + 1)
    ELSE MapAndIssue(az, parsed.assertion, now, signErr, Append(tried, i), i)

\* a scan that gives up at the first binding that fails
AfterParseAborting(az, samlpRespRaw, now, signErr, spErrors, tried, i, parsed) ==
    IF parsed.err # NoErr
    THEN AzResult(Nil, EmptyString,
                  <<"The Azure AD validation failures: ">> \o parsed.err,
                  Append(tried, i), 0, Nil, <<"validate">>)
    ELSE MapAndIssue(az, parsed.assertion, now, signErr, Append(tried, i), i)

\* a scan that maps the attributes of a response the binding did not validate
AfterParseTrusting(az, samlpRespRaw, now, signErr, spErrors, tried, i, parsed) ==
    IF Len(samlpRespRaw) = 1 /\ samlpRespRaw[1].kind = "Response"
    THEN MapAndIssue(az, [AttributeStatements |-> samlpRespRaw[1].AttributeStatements],
                     now, signErr, Append(tried, i), i)
    ELSE ScanBindings(az, samlpRespRaw, now, signErr,
                      Append(spErrors, parsed.err), Append(tried, i), i + 1)

\* lines 67-72: what ParseXMLResponse returned for binding i
AfterParse(az, samlpRespRaw, now, signErr, spErrors, tried, i, parsed) ==
    IF parsed.err # NoErr
    THEN ScanBindings(az, samlpRespRaw, now, signErr,
                      Append(spErrors, parsed.err), Append(tried, i), i + 1)
    ELSE MapAndIssue(az, parsed.assertion, now, signErr, Append(tried, i), i)

ScanBindings(az, samlpRespRaw, now, signErr, spErrors, tried, i) ==
    IF i > Len(az.ServiceProviders)
    THEN AzResult(Nil, EmptyString,
                  <<"The Azure AD validation failures: ">> \o Join(spErrors, <<", ">>),
                  tried, 0, Nil, <<"validate">>)
    ELSE AfterParse(az, samlpRespRaw, now, signErr, spErrors, tried, i,
                    ParseXMLResponse(az.ServiceProviders[i], az.IDPMetadata, samlpRespRaw))

ErrWrongContentType ==
    <<"The Azure AD authorization POST request is not application/x-www-form-urlencoded">>
ErrNoSAMLResponse == <<"The Azure AD authorization POST request has no SAMLResponse">>
ErrBase64 ==
    <<"The Azure AD authorization POST request with SAMLResponse failed base64 decoding: ">>

FormContentType == <<"application/x-www-form-urlencoded">>

\* lines 60-147: the outcome of the base64 decoding
AfterDecode(az, decoded, now, signErr) ==
    IF decoded.err # NoErr
    THEN AzResult(Nil, EmptyString, ErrBase64 \o decoded.err, <<>>, 0, Nil, <<>>)
    ELSE ScanBindings(az, decoded.bytes, now, signErr, <<>>, <<>>, 1)

\* the form field looked at before the content type
AzureAuthenticateFieldFirst(az, req, now, signErr) ==
    IF FormValue(req, "SAMLResponse") = EmptyString
    THEN AzResult(Nil, EmptyString, ErrNoSAMLResponse, <<>>, 0, Nil, <<>>)
    ELSE IF HeaderGet(req, "Content-Type") # FormContentType
    THEN AzResult(Nil, EmptyString, ErrWrongContentType, <<>>, 0, Nil, <<>>)
    ELSE AfterDecode(az, DecodeString(FormValue(req, "SAMLResponse")), now, signErr)

\* AzureIdp.Authenticate
AzureAuthenticate(az, req, now, signErr) ==
    IF HeaderGet(req, "Content-Type") # FormContentType
    THEN AzResult(Nil, EmptyString, ErrWrongContentType, <<>>, 0, Nil, <<>>)
    ELSE IF FormValue(req, "SAMLResponse") = EmptyString
    THEN AzResult(Nil, EmptyString, ErrNoSAMLResponse, <<>>, 0, Nil, <<>>)
    ELSE AfterDecode(az, DecodeString(FormValue(req, "SAMLResponse")), now, signErr)

-----------------------------------------------------------------------------
(* AuthProvider.Provision, Validate and Authenticate as steps *)

EmptyUser == [ID |-> EmptyString, Metadata |-> Nil]      \* caddyauth.User{}

OriginPattern == <<"login.microsoftonline.com">>
RefererPattern == <<"windowsazure.com">>

\* a gate that forgets the method
EligibleAnyMethod(req) ==
    \/ Contains(HeaderGet(req, "Origin"), OriginPattern)
    \/ Contains(HeaderGet(req, "Referer"), RefererPattern)

\* the eligibility gate of lines 141-143
Eligible(req) ==
    /\ req.Method = "POST"
    /\ \/ Contains(HeaderGet(req, "Origin"), OriginPattern)
       \/ Contains(HeaderGet(req, "Referer"), RefererPattern)

\* no Authenticate call runs beside the one of pc
NoCalls == <<>>

Idle ==
    /\ pc = "idle"
    /\ r = Nil
    /\ w = NewResponseWriter
    /\ uiArgs = Nil
    /\ userIdentity = Nil
    /\ userToken = EmptyString
    /\ err = NoErr
    /\ userAuthenticated = FALSE
    /\ uiErr = NoErr
    /\ ret = Nil
    /\ azRun = Nil
    /\ trace = <<>>

\* AuthProvider.Provision
Provision ==
    /\ phase = "new"
    /\ m' = [m EXCEPT !.Name = "saml"]
    /\ phase' = "provisioned"
    /\ UNCHANGED <<env, valErr, inflight, reqVars>>

\* AuthProvider.Validate; an error keeps the module from becoming ready
ValidateConfig ==
    /\ phase = "provisioned"
    /\ \E v \in {Validate(m, env)} :
           /\ m' = v.m
           /\ valErr' = v.err
           /\ phase' = IF v.panic THEN "crashed"
                       ELSE IF v.err # NoErr THEN "failed" ELSE "ready"
    /\ UNCHANGED <<env, inflight, reqVars>>

\* entry of Authenticate for a request of reqSet: the locals of lines 133-138
Accept(reqSet) ==
    /\ phase = "ready"
    /\ pc = "idle"
    /\ \E req \in reqSet : r' = req
    /\ w' = NewResponseWriter
    /\ uiArgs' = newUserInterfaceArgs(m.UI)
    /\ userIdentity' = Nil
    /\ userToken' = EmptyString
    /\ err' = NoErr
    /\ userAuthenticated' = FALSE
    /\ uiErr' = NoErr
    /\ ret' = Nil
    /\ azRun' = Nil
    /\ trace' = <<"enter">>
    /\ pc' = "auth"
    /\ UNCHANGED <<m, env, phase, valErr, inflight>>

\* a handler that returns as soon as the pipeline fails, without rendering
DispatchReturningOnError ==
    /\ pc = "auth"
    /\ IF Eligible(r)
       THEN \E now \in 0..MaxClock, signErr \in BOOLEAN :
              \E res \in {AzureAuthenticate(m.Azure, r, now, signErr)} :
                  /\ userIdentity' = res.user
                  /\ userToken' = res.token
                  /\ err' = res.err
                  /\ azRun' = res @@ [now |-> now]
                  /\ IF res.err # NoErr
                     THEN /\ uiArgs' = [uiArgs EXCEPT !.Message = res.err]
                          /\ UNCHANGED userAuthenticated
                          /\ w' = HeaderSet(w, "WWW-Authenticate", <<"Bearer">>)
                          /\ ret' = [user |-> EmptyUser, ok |-> FALSE, err |-> NoErr]
                          /\ trace' = Append(Append(trace, "azure"), "return")
                          /\ pc' = "done"
                     ELSE /\ userAuthenticated' = TRUE
                          /\ uiArgs' = [uiArgs EXCEPT !.Authenticated = TRUE]
                          /\ trace' = Append(trace, "azure")
                          /\ pc' = "render"
                          /\ UNCHANGED <<w, ret>>
       ELSE /\ UNCHANGED <<userIdentity, userToken, err, azRun, uiArgs, userAuthenticated,
                           w, ret>>
            /\ trace' = Append(trace, "skip")
            /\ pc' = "render"
    /\ UNCHANGED <<m, env, phase, valErr, inflight, r, uiErr>>

\* lines 141-153: the gate and, behind it, the call of m.Azure.Authenticate
Dispatch ==
    /\ pc = "auth"
    /\ IF Eligible(r)
       THEN \E now \in 0..MaxClock, signErr \in BOOLEAN :
              \E res \in {AzureAuthenticate(m.Azure, r, now, signErr)} :
                  /\ userIdentity' = res.user
                  /\ userToken' = res.token
                  /\ err' = res.err
                  /\ azRun' = res @@ [now |-> now]
                  /\ IF res.err # NoErr
                     THEN /\ uiArgs' = [uiArgs EXCEPT !.Message = res.err]
                          /\ UNCHANGED userAuthenticated
                     ELSE /\ userAuthenticated' = TRUE
                          /\ uiArgs' = [uiArgs EXCEPT !.Authenticated = TRUE]
                  /\ trace' = Append(trace, "azure")
       ELSE /\ UNCHANGED <<userIdentity, userToken, err, azRun, uiArgs, userAuthenticated>>
            /\ trace' = Append(trace, "skip")
    /\ pc' = "render"
    /\ UNCHANGED <<m, env, phase, valErr, inflight, r, w, uiErr, ret>>

\* lines 155-159: Render UI
RenderUI ==
    /\ pc = "render"
    /\ \E out \in {render(m.UI, w, uiArgs)} :
           /\ w' = out.w
           /\ uiErr' = out.err
    /\ trace' = Append(trace, "render")
    /\ pc' = "wrapup"
    /\ UNCHANGED <<m, env, phase, valErr, inflight, r, uiArgs, userIdentity, userToken, err,
                   userAuthenticated, ret, azRun>>

\* a challenge that carries more than the scheme
failAzureAuthenticationVerbose(rw, e) ==
    [w |-> HeaderSet(rw, "WWW-Authenticate", <<"Bearer", " error=">> \o e),
     ret |-> [user |-> EmptyUser, ok |-> FALSE, err |-> e]]

\* AuthProvider.failAzureAuthentication(w, e): [w, ret]
failAzureAuthentication(rw, e) ==
    [w |-> HeaderSet(rw, "WWW-Authenticate", <<"Bearer">>),
     ret |-> [user |-> EmptyUser, ok |-> FALSE, err |-> e]]

\* the success return of lines 174-175: [w, ret]
succeedAuthentication(rw, identity, token) ==
    [w |-> HeaderSet(rw, "Authorization", <<"Bearer ">> \o token),
     ret |-> [user |-> identity, ok |-> TRUE, err |-> NoErr]]

\* lines 161-175: Wrap up
WrapUp ==
    /\ pc = "wrapup"
    /\ \E out \in {IF ~userAuthenticated THEN failAzureAuthentication(w, NoErr)
                   ELSE succeedAuthentication(w, userIdentity, userToken)} :
           /\ w' = out.w
           /\ ret' = out.ret
    /\ trace' = Append(trace, "return")
    /\ pc' = "done"
    /\ UNCHANGED <<m, env, phase, valErr, inflight, r, uiArgs, userIdentity, userToken, err,
                   userAuthenticated, uiErr, azRun>>

\* the request is over; the handler is ready for the next one
Return ==
    /\ pc = "done"
    /\ pc' = "idle"
    /\ r' = Nil
    /\ w' = NewResponseWriter
    /\ uiArgs' = Nil
    /\ userIdentity' = Nil
    /\ userToken' = EmptyString
    /\ err' = NoErr
    /\ userAuthenticated' = FALSE
    /\ uiErr' = NoErr
    /\ ret' = Nil
    /\ azRun' = Nil
    /\ trace' = <<>>
    /\ UNCHANGED <<m, env, phase, valErr, inflight>>

-----------------------------------------------------------------------------
(* AuthProvider.Authenticate for calls that run side by side.  Each call    *)
(* has its own locals (a record of inflight); a step takes the provider as  *)
(* it is when the step runs and yields the provider as the step leaves it   *)
(* together with the call's locals: [m, call].                              *)

\* the locals of a call that has not started
IdleCall ==
    [pc |-> "idle", r |-> Nil, w |-> NewResponseWriter, uiArgs |-> Nil, userIdentity |-> Nil,
     userToken |-> EmptyString, err |-> NoErr, userAuthenticated |-> FALSE, uiErr |-> NoErr,
     ret |-> Nil, azRun |-> Nil]

\* lines 132-137: the locals at entry
AuthenticateEnter(mod, req) ==
    [m |-> mod,
     call |-> [IdleCall EXCEPT !.pc = "auth", !.r = req,
                               !.uiArgs = newUserInterfaceArgs(mod.UI)]]

\* a handler that keeps the message of a failure in the provider's UI settings
AuthenticatePipelineResultSharedMessage(mod, c, res, now, signErr) ==
    [m |-> IF res.err # NoErr THEN [mod EXCEPT !.UI.Title = "Sign In failed"] ELSE mod,
     call |-> [c EXCEPT !.pc = "render",
                        !.userIdentity = res.user,
                        !.userToken = res.token,
                        !.err = res.err,
                        !.azRun = res @@ [now |-> now, signErr |-> signErr],
                        !.uiArgs = IF res.err # NoErr THEN [@ EXCEPT !.Message = res.err]
                                   ELSE [@ EXCEPT !.Authenticated = TRUE],
                        !.userAuthenticated = (res.err = NoErr)]]

\* lines 144-149: what m.Azure.Authenticate returned
AuthenticatePipelineResult(mod, c, res, now, signErr) ==
    [m |-> mod,
     call |-> [c EXCEPT !.pc = "render",
                        !.userIdentity = res.user,
                        !.userToken = res.token,
                        !.err = res.err,
                        !.azRun = res @@ [now |-> now, signErr |-> signErr],
                        !.uiArgs = IF res.err # NoErr THEN [@ EXCEPT !.Message = res.err]
                                   ELSE [@ EXCEPT !.Authenticated = TRUE],
                        !.userAuthenticated = (res.err = NoErr)]]

\* lines 140-153: the gate and the pipeline
AuthenticatePipeline(mod, c, now, signErr) ==
    IF Eligible(c.r)
    THEN AuthenticatePipelineResult(mod, c, AzureAuthenticate(mod.Azure, c.r, now, signErr),
                                    now, signErr)
    ELSE [m |-> mod, call |-> [c EXCEPT !.pc = "render"]]

\* lines 155-159: what m.UI.render returned
AuthenticateRenderResult(mod, c, out) ==
    [m |-> mod, call |-> [c EXCEPT !.pc = "wrapup", !.w = out.w, !.uiErr = out.err]]

AuthenticateRender(mod, c) ==
    AuthenticateRenderResult(mod, c, render(mod.UI, c.w, c.uiArgs))

\* lines 161-175: the returns
AuthenticateWrapUpResult(mod, c, out) ==
    [m |-> mod, call |-> [c EXCEPT !.pc = "done", !.w = out.w, !.ret = out.ret]]

AuthenticateWrapUp(mod, c) ==
    AuthenticateWrapUpResult(mod, c,
        IF ~c.userAuthenticated THEN failAzureAuthentication(c.w, NoErr)
        ELSE succeedAuthentication(c.w, c.userIdentity, c.userToken))

\* call i enters Authenticate with a request of reqSet
AcceptAt(i, reqSet) ==
    /\ phase = "ready"
    /\ inflight[i].pc = "idle"
    /\ \E req \in reqSet :
           \E out \in {AuthenticateEnter(m, req)} :
               /\ m' = out.m
               /\ inflight' = [inflight EXCEPT ![i] = out.call]
    /\ UNCHANGED <<env, phase, valErr, reqVars>>

DispatchAt(i) ==
    /\ inflight[i].pc = "auth"
    /\ \E now \in 0..MaxClock, signErr \in BOOLEAN :
           \E out \in {AuthenticatePipeline(m, inflight[i], now, signErr)} :
               /\ m' = out.m
               /\ inflight' = [inflight EXCEPT ![i] = out.call]
    /\ UNCHANGED <<env, phase, valErr, reqVars>>

RenderUIAt(i) ==
    /\ inflight[i].pc = "render"
    /\ \E out \in {AuthenticateRender(m, inflight[i])} :
           /\ m' = out.m
           /\ inflight' = [inflight EXCEPT ![i] = out.call]
    /\ UNCHANGED <<env, phase, valErr, reqVars>>

WrapUpAt(i) ==
    /\ inflight[i].pc = "wrapup"
    /\ \E out \in {AuthenticateWrapUp(m, inflight[i])} :
           /\ m' = out.m
           /\ inflight' = [inflight EXCEPT ![i] = out.call]
    /\ UNCHANGED <<env, phase, valErr, reqVars>>

\* the call is over: its locals are gone
ReturnAt(i) ==
    /\ inflight[i].pc = "done"
    /\ inflight' = [inflight EXCEPT ![i] = IdleCall]
    /\ UNCHANGED <<m, env, phase, valErr, reqVars>>

-----------------------------------------------------------------------------
(* The configurations and requests the model is run on *)

AcsURLs == {<<"https", "://", "app.local", "/saml">>, <<"https", "://", "10.0.0.1", "/saml">>}
OtherAcsURL == <<"https", "://", "other.example", "/saml">>

AzureConfig(urls) ==
    [Jwt |-> [TokenName |-> EmptyString, TokenSecret |-> EmptyString,
              TokenIssuer |-> EmptyString],
     ServiceProviders |-> <<>>, IDPMetadata |-> Nil,
     IdpMetadataLocation |-> EmptyString, IdpMetadataURL |-> Nil,
     IdpSignCertLocation |-> GoodCertLocation,
     TenantID |-> "tenant", ApplicationID |-> "app-id", ApplicationName |-> "app",
     LoginURL |-> EmptyString, EntityID |-> EmptyString,
     AssertionConsumerServiceURLs |-> urls]

UIConfig(location) == [NewUserInterface EXCEPT !.TemplateLocation = location]

Configs ==
    {[Name |-> "", AuthURLPath |-> path,
      Jwt |-> [TokenName |-> EmptyString, TokenSecret |-> secret, TokenIssuer |-> issuer],
      Azure |-> azure, UI |-> ui, idpProviderCount |-> 0] :
        path \in {EmptyString, <<"/saml">>},
        secret \in {EmptyString, <<"s3cret">>},
        issuer \in {EmptyString, <<"issuer">>},
        azure \in {Nil} \cup {AzureConfig(urls) : urls \in SeqsUpTo(AcsURLs, MaxSP)},
        ui \in {Nil, UIConfig(BrokenTemplateLocation), UIConfig(UnparsableTemplateLocation)}}

Environments == {[JWT_TOKEN_SECRET |-> v] : v \in {EmptyString, <<"envsecret">>}}

\* attributes
Attr(name, values) == [Name |-> name, Values |-> values]

NameEmailAddress == <<"http://schemas.xmlsoap.org/ws/2005/05/", "identity/claims/", "emailaddress">>
NameDisplayName == <<"http://schemas.microsoft.com/", "identity/claims/", "displayname">>
NameName == <<"http://schemas.xmlsoap.org/ws/2005/05/", "identity/claims/", "name">>
NameIdentityProvider == <<"http://schemas.microsoft.com/", "identity/claims/", "identityprovider">>
NameRole == <<"https://aws.amazon.com/SAML/", "Attributes/", "Role">>
NameMaxSessionDuration == <<"https://aws.amazon.com/SAML/", "Attributes/", "MaxSessionDuration">>
NameTenantID == <<"http://schemas.microsoft.com/", "identity/claims/", "tenantid">>

AttrEmail == Attr(NameEmailAddress, << <<"a@b.com">> >>)
AttrDisplayName == Attr(NameDisplayName, << <<"Jane Doe">> >>)
AttrName == Attr(NameName, << <<"jdoe">> >>)
AttrRoles == Attr(NameRole, << <<"admin">>, <<"user">> >>)
AttrOrigin == Attr(NameIdentityProvider, << <<"https://sts.windows.net/tenant/">> >>)
AttrEmptyDisplayName == Attr(NameDisplayName, << EmptyString >>)
AttrNoEmail == Attr(NameEmailAddress, <<>>)

\* XML documents
Response(destination, cert, attributes) ==
    [kind |-> "Response", Destination |-> destination, SignedBy |-> cert,
     AttributeStatements |-> << [Attributes |-> attributes] >>]

Garbage ==
    [kind |-> "garbage", Destination |-> EmptyString, SignedBy |-> "",
     AttributeStatements |-> <<>>]

GoodResponse ==
    Response(<<"https", "://", "app.local", "/saml">>, IdpCert, <<AttrEmail, AttrDisplayName>>)

\* requests; an absent header or form field is <<>>, a present one <<value>>
Request(method, origin, referer, contentType, samlResponse, relayState) ==
    LET h == [k \in {"Origin", "Referer", "Content-Type"} |->
                 IF k = "Origin" THEN origin
                 ELSE IF k = "Referer" THEN referer ELSE contentType]
        f == [k \in {"SAMLResponse", "RelayState"} |->
                 IF k = "SAMLResponse" THEN samlResponse ELSE relayState]
    IN  [Method |-> method,
         Header |-> [k \in {x \in DOMAIN h : Len(h[x]) = 1} |-> h[k][1]],
         Form |-> [k \in {x \in DOMAIN f : Len(f[x]) = 1} |-> f[k][1]]]

MicrosoftOrigin == <<"https", "://", "login.microsoftonline.com">>
AzureReferer == <<"https", "://", "account.activedirectory.", "windowsazure.com", "/">>

Origins == {<<>>, <<MicrosoftOrigin>>, << <<"https", "://", "evil.example">> >>}
Referers == {<<>>, <<AzureReferer>>, << <<"https", "://", "login.microsoftonline.com", "/">> >>}

ContentTypes ==
    {<<>>, <<FormContentType>>, << <<"application/x-www-form-urlencoded", "; charset=UTF-8">> >>,
     << <<"application/json">> >>}

\* requests that exercise the gate
GateRequests ==
    {Request(method, origin, referer, <<FormContentType>>, saml, <<>>) :
        method \in {"GET", "POST"}, origin \in Origins, referer \in Referers,
        saml \in {<<>>, <<EncodeToString(<<GoodResponse>>)>>}}

\* eligible requests that exercise the protocol checks
ProtocolRequests ==
    {Request("POST", <<MicrosoftOrigin>>, <<>>, contentType, saml, relay) :
        contentType \in ContentTypes,
        saml \in {<<>>, <<EmptyString>>, << <<IllegalSymbol>> >>,
                  <<Append(EncodeToString(<<GoodResponse>>), IllegalSymbol)>>,
                  <<EncodeToString(<<Garbage>>)>>,
                  <<EncodeToString(<<GoodResponse>>)>>},
        relay \in {<<>>, << <<"relay">> >>}}

\* eligible, well-formed requests that exercise the bindings and the mapper
BindingRequests ==
    {Request("POST", <<>>, <<AzureReferer>>, <<FormContentType>>,
             <<EncodeToString(<<Response(destination, cert, attributes)>>)>>, <<>>) :
        destination \in AcsURLs \cup {OtherAcsURL},
        cert \in {IdpCert, OtherCert},
        attributes \in SeqsUpTo({AttrEmail, AttrDisplayName, AttrRoles}, MaxAttrs)}

Requests == GateRequests \cup ProtocolRequests \cup BindingRequests

-----------------------------------------------------------------------------
(* The specification *)

Init ==
    /\ m \in Configs
    /\ env \in Environments
    /\ phase = "new"
    /\ valErr = NoErr
    /\ inflight = NoCalls
    /\ Idle

Next ==
    \/ Provision
    \/ ValidateConfig
    \/ Accept(Requests)
    \/ Dispatch
    \/ RenderUI
    \/ WrapUp
    \/ Return

Spec == Init /\ [][Next]_vars

-----------------------------------------------------------------------------
(* A second specification, for the claims mapper: one configuration shape,  *)
(* eligible requests whose response the first binding validates, and        *)
(* assertions of up to MaxClaimAttrs attributes.                            *)

ClaimConfigs ==
    {[Name |-> "", AuthURLPath |-> <<"/saml">>,
      Jwt |-> [TokenName |-> EmptyString, TokenSecret |-> <<"s3cret">>,
               TokenIssuer |-> EmptyString],
      Azure |-> AzureConfig(urls), UI |-> Nil, idpProviderCount |-> 0] :
        urls \in {<<"https", "://", "app.local", "/saml">>} \X AcsURLs}

ClaimAttrs ==
    {AttrEmail, AttrDisplayName, AttrName, AttrRoles, AttrOrigin,
     AttrEmptyDisplayName, AttrNoEmail}

ClaimRequests ==
    {Request("POST", <<MicrosoftOrigin>>, <<>>, <<FormContentType>>,
             <<EncodeToString(<<Response(<<"https", "://", "app.local", "/saml">>,
                                         IdpCert, attributes)>>)>>, <<>>) :
        attributes \in SeqsUpTo(ClaimAttrs, MaxClaimAttrs)}

InitClaims ==
    /\ m \in ClaimConfigs
    /\ env = [JWT_TOKEN_SECRET |-> EmptyString]
    /\ phase = "new"
    /\ valErr = NoErr
    /\ inflight = NoCalls
    /\ Idle

NextClaims ==
    \/ Provision
    \/ ValidateConfig
    \/ Accept(ClaimRequests)
    \/ Dispatch
    \/ RenderUI
    \/ WrapUp
    \/ Return

SpecClaims == InitClaims /\ [][NextClaims]_vars

-----------------------------------------------------------------------------
(* A third specification, for the expiry of the claims: one binding, and    *)
(* assertions that carry up to MaxSessionAttrs MaxSessionDuration           *)
(* attributes between the emailaddress and the displayname attribute.       *)

SessionDuration(values) == Attr(NameMaxSessionDuration, values)

SessionAttrs ==
    {SessionDuration(<< <<"3", "6", "0", "0">> >>),
     SessionDuration(<< <<"0">> >>),
     SessionDuration(<< <<"-", "5">> >>),
     SessionDuration(<< <<"9", "0", "0", "0">> >>),
     SessionDuration(<< <<"1", "h">> >>),
     SessionDuration(<< EmptyString >>),
     SessionDuration(<< <<"6", "0">>, <<"a", "b", "c">> >>),
     SessionDuration(<<>>)}

ExpiryConfigs ==
    {[Name |-> "", AuthURLPath |-> <<"/saml">>,
      Jwt |-> [TokenName |-> EmptyString, TokenSecret |-> <<"s3cret">>,
               TokenIssuer |-> issuer],
      Azure |-> AzureConfig(<< <<"https", "://", "app.local", "/saml">> >>),
      UI |-> Nil, idpProviderCount |-> 0] : issuer \in {EmptyString, <<"issuer">>}}

ExpiryRequests ==
    {Request("POST", <<MicrosoftOrigin>>, <<>>, <<FormContentType>>,
             <<EncodeToString(<<Response(<<"https", "://", "app.local", "/saml">>, IdpCert,
                                         <<AttrEmail>> \o durations \o tail)>>)>>, <<>>) :
        durations \in SeqsUpTo(SessionAttrs, MaxSessionAttrs),
        tail \in {<<>>, <<AttrDisplayName>>}}

InitExpiry ==
    /\ m \in ExpiryConfigs
    /\ env = [JWT_TOKEN_SECRET |-> EmptyString]
    /\ phase = "new"
    /\ valErr = NoErr
    /\ inflight = NoCalls
    /\ Idle

NextExpiry ==
    \/ Provision
    \/ ValidateConfig
    \/ Accept(ExpiryRequests)
    \/ Dispatch
    \/ RenderUI
    \/ WrapUp
    \/ Return

SpecExpiry == InitExpiry /\ [][NextExpiry]_vars

-----------------------------------------------------------------------------
(* A fourth specification, for AzureIdp.Validate: the Azure settings vary,  *)
(* the settings of the module around them are valid, and a validated        *)
(* module serves a few requests.                                            *)

BadAcsURL == <<"https", "://", "app.local", "/", BadEscape>>

EntityIDs ==
    {EmptyString, <<"urn:caddy:saml">>, <<"https", "://", "sp.example", "/", BadEscape>>}

MetadataLocations ==
    {EmptyString,
     <<"https", "://", UnreachableHost, "/metadata.xml">>,
     <<"https", "://", "idp.example", "/", BadEscape>>,
     GoodMetadataFile, BadMetadataFile, NoDescriptorMetadataFile, KeyedMetadataFile,
     <<"/etc/saml/missing.xml">>}

ValidateConfigs ==
    {[Name |-> "", AuthURLPath |-> <<"/saml">>,
      Jwt |-> [TokenName |-> EmptyString, TokenSecret |-> <<"s3cret">>,
               TokenIssuer |-> EmptyString],
      Azure |-> [AzureConfig(urls) EXCEPT !.TenantID = ids[1], !.ApplicationID = ids[2],
                                          !.ApplicationName = ids[3],
                                          !.IdpSignCertLocation = certLocation,
                                          !.IdpMetadataLocation = metadataLocation,
                                          !.EntityID = entityID],
      UI |-> Nil, idpProviderCount |-> 0] :
        urls \in SeqsUpTo(AcsURLs \cup {BadAcsURL}, MaxSP),
        ids \in {<<"tenant", "app-id", "app">>, <<"", "app-id", "app">>,
                 <<"tenant", "", "app">>, <<"tenant", "app-id", "">>},
        certLocation \in {EmptyString, GoodCertLocation, MissingCertLocation},
        metadataLocation \in MetadataLocations,
        entityID \in EntityIDs}

ValidateRequests ==
    {Request("POST", <<MicrosoftOrigin>>, <<>>, <<FormContentType>>,
             <<EncodeToString(<<Response(destination, cert, <<AttrEmail, AttrDisplayName>>)>>)>>,
             <<>>) :
        destination \in AcsURLs, cert \in {IdpCert, OtherCert}}

InitValidate ==
    /\ m \in ValidateConfigs
    /\ env = [JWT_TOKEN_SECRET |-> EmptyString]
    /\ phase = "new"
    /\ valErr = NoErr
    /\ inflight = NoCalls
    /\ Idle

NextValidate ==
    \/ Provision
    \/ ValidateConfig
    \/ Accept(ValidateRequests)
    \/ Dispatch
    \/ RenderUI
    \/ WrapUp
    \/ Return

SpecValidate == InitValidate /\ [][NextValidate]_vars

-----------------------------------------------------------------------------
(* A fifth specification, for the scan of the claims mapper: assertions     *)
(* with two attribute statements that share up to MaxMapperAttrs            *)
(* attributes, with repeated, multi-valued and value-less attributes.       *)

AttrEmails == Attr(NameEmailAddress, << <<"c@d.com">>, <<"e@f.com">> >>)
AttrOtherRole == Attr(NameRole, << <<"dev">> >>)

MapperAttrs ==
    {AttrEmail, AttrEmails, AttrNoEmail, AttrDisplayName, AttrName, AttrOrigin,
     AttrRoles, AttrOtherRole}

\* an XML document with the attributes split over two statements
TwoStatementResponse(destination, cert, attributes, cut) ==
    [kind |-> "Response", Destination |-> destination, SignedBy |-> cert,
     AttributeStatements |-> << [Attributes |-> SubSeq(attributes, 1, cut)],
                                [Attributes |-> SubSeq(attributes, cut + 1, Len(attributes))] >>]

MapperRequests ==
    {Request("POST", <<MicrosoftOrigin>>, <<>>, <<FormContentType>>,
             <<EncodeToString(<<TwoStatementResponse(<<"https", "://", "app.local", "/saml">>,
                                                     IdpCert, sc[1], sc[2])>>)>>, <<>>) :
        sc \in {x \in SeqsUpTo(MapperAttrs, MaxMapperAttrs) \X (0..MaxMapperAttrs) :
                    x[2] <= Len(x[1])}}

NextMapper ==
    \/ Provision
    \/ ValidateConfig
    \/ Accept(MapperRequests)
    \/ Dispatch
    \/ RenderUI
    \/ WrapUp
    \/ Return

SpecMapper == InitExpiry /\ [][NextMapper]_vars

-----------------------------------------------------------------------------
(* A sixth specification, for calls that run side by side: up to            *)
(* MaxRequests Authenticate calls interleave their steps on one validated   *)
(* provider.                                                                *)

ParallelGood ==
    Request("POST", <<MicrosoftOrigin>>, <<>>, <<FormContentType>>,
            <<EncodeToString(<<GoodResponse>>)>>, <<>>)

ParallelWrongCert ==
    Request("POST", <<MicrosoftOrigin>>, <<>>, <<FormContentType>>,
            <<EncodeToString(<<Response(<<"https", "://", "app.local", "/saml">>, OtherCert,
                                        <<AttrEmail, AttrDisplayName>>)>>)>>, <<>>)

ParallelNoName ==
    Request("POST", <<>>, <<AzureReferer>>, <<FormContentType>>,
            <<EncodeToString(<<Response(<<"https", "://", "10.0.0.1", "/saml">>, IdpCert,
                                        <<AttrEmail, AttrRoles>>)>>)>>, <<>>)

ParallelGet == Request("GET", <<MicrosoftOrigin>>, <<>>, <<>>, <<>>, <<>>)

ParallelRequests == {ParallelGood, ParallelWrongCert, ParallelNoName, ParallelGet}

ParallelConfigs ==
    {[Name |-> "", AuthURLPath |-> <<"/saml">>,
      Jwt |-> [TokenName |-> EmptyString, TokenSecret |-> <<"s3cret">>,
               TokenIssuer |-> EmptyString],
      Azure |-> AzureConfig(<< <<"https", "://", "app.local", "/saml">>,
                               <<"https", "://", "10.0.0.1", "/saml">> >>),
      UI |-> ui, idpProviderCount |-> 0] : ui \in {Nil, UIConfig(BrokenTemplateLocation)}}

InitParallel ==
    /\ m \in ParallelConfigs
    /\ env = [JWT_TOKEN_SECRET |-> EmptyString]
    /\ phase = "new"
    /\ valErr = NoErr
    /\ inflight = [i \in 1..MaxRequests |-> IdleCall]
    /\ Idle

NextParallel ==
    \/ Provision
    \/ ValidateConfig
    \/ \E i \in 1..MaxRequests : AcceptAt(i, ParallelRequests)
    \/ \E i \in 1..MaxRequests : DispatchAt(i)
    \/ \E i \in 1..MaxRequests : RenderUIAt(i)
    \/ \E i \in 1..MaxRequests : WrapUpAt(i)
    \/ \E i \in 1..MaxRequests : ReturnAt(i)

SpecParallel == InitParallel /\ [][NextParallel]_vars

-----------------------------------------------------------------------------
(* Properties *)

\* the decoded SAMLResponse of the current request
Decoded == DecodeString(FormValue(r, "SAMLResponse"))

\* binding i validates the decoded response of the current request
Accepts(i) ==
    ParseXMLResponse(m.Azure.ServiceProviders[i], m.Azure.IDPMetadata, Decoded.bytes).err
        = NoErr

\* AzureIdp.Authenticate was called and got past the three protocol checks
Scanned == azRun # Nil /\ Len(azRun.steps) > 0

Rejected == [user |-> EmptyUser, ok |-> FALSE, err |-> NoErr]

\* C1: the bindings are offered the response in registration order, each at
\* most once; the first binding that validates it is the one used, none after
\* it is tried, and earlier failures do not end the scan; when none validates
\* it, every binding has been tried.
C1_FirstSuccessWins ==
    Scanned =>
        LET n == Len(m.Azure.ServiceProviders)
            ok == {i \in 1..n : Accepts(i)}
        IN  /\ azRun.tried = [j \in 1..Len(azRun.tried) |-> j]
            /\ IF ok = {}
               THEN azRun.used = 0 /\ Len(azRun.tried) = n
               ELSE /\ azRun.used = CHOOSE i \in ok : \A j \in ok : i <= j
                    /\ Len(azRun.tried) = azRun.used
                    /\ azRun.claims # Nil

\* a response valid only for binding 2 of 2 has authenticated
C1_Witness ==
    /\ pc = "done"
    /\ Scanned
    /\ Len(m.Azure.ServiceProviders) = 2
    /\ ~Accepts(1)
    /\ Accepts(2)
    /\ azRun.tried = <<1, 2>>
    /\ azRun.used = 2
    /\ ret.ok

\* C2: after a successful authentication the response sent to the client
\* carries Authorization: Bearer <token> with the rendered body and status 200,
\* and the result is (identity, true) with the identity built from the claims.
C2_AuthorizationDelivered ==
    (pc = "done" /\ userAuthenticated) =>
        /\ w.committed
        /\ w.status = 200
        /\ Len(w.body) = 1
        /\ "Authorization" \in DOMAIN w.sent
        /\ w.sent["Authorization"] = <<"Bearer ">> \o userToken
        /\ ret.ok
        /\ ret.user = [ID |-> azRun.claims.Email,
                       Metadata |-> [name |-> azRun.claims.Name,
                                     email |-> azRun.claims.Email,
                                     roles |-> Join(azRun.claims.Roles, <<" ">>)]]

\* C3: no token returned by AzureIdp.Authenticate was signed with an empty
\* secret.
C3_NoEmptySecret ==
    (azRun # Nil /\ azRun.token # EmptyString) => azRun.token[1].key # EmptyString

\* the attributes of the response of the current request, and the claims the
\* scan builds from them
Attributes == Decoded.bytes[1].AttributeStatements[1].Attributes

ScannedClaims == ScanStatements(NewClaims(0), Decoded.bytes[1].AttributeStatements, 0)

IsPermutationOf(seq, S) ==
    /\ Len(seq) = Cardinality(S)
    /\ {seq[i] : i \in 1..Len(seq)} = S

MandatoryFailure ==
    <<"The Azure AD authorization failed, mandatory attributes not found: ">>

\* C4: when the scan leaves the email or the name of the claims empty, the
\* call fails with 'mandatory attributes not found', issues no token and tries
\* no further binding, whatever subject, origin, roles and expiry hold.
C4_MandatoryAttributes ==
    (Scanned /\ azRun.used # 0
        /\ (ScannedClaims.Email = EmptyString \/ ScannedClaims.Name = EmptyString)) =>
        /\ HasPrefix(azRun.err, MandatoryFailure)
        /\ azRun.token = EmptyString
        /\ azRun.user = Nil
        /\ azRun.steps = <<"validate", "map">>
        /\ Len(azRun.tried) = azRun.used
        /\ ~userAuthenticated
        /\ (pc = "done" => ret = Rejected)

\* the name is missing although email, subject, origin and roles are there,
\* and a later binding would have validated the response too
C4_Witness ==
    /\ pc = "done"
    /\ Scanned
    /\ azRun.used = 1
    /\ Accepts(2)
    /\ ScannedClaims.Email # EmptyString
    /\ ScannedClaims.Name = EmptyString
    /\ ScannedClaims.Subject # EmptyString
    /\ ScannedClaims.Origin # EmptyString
    /\ ScannedClaims.Roles # <<>>
    /\ ret = Rejected

ClaimsCarry(claims) ==
    /\ claims.Email = AttrEmail.Values[1]
    /\ claims.Subject = AttrName.Values[1]
    /\ claims.Roles = AttrRoles.Values

\* C5 as stated: an assertion with exactly an emailaddress, a name and a Role
\* attribute yields a claims record and a token with that email, subject and
\* roles.
C5_ThreeAttributesIssueToken ==
    (Scanned /\ azRun.used # 0
        /\ IsPermutationOf(Attributes, {AttrEmail, AttrName, AttrRoles})) =>
        /\ ClaimsCarry(azRun.claims)
        /\ azRun.steps = <<"validate", "map", "sign">>
        /\ (azRun.err = NoErr => ClaimsCarry(azRun.token[1].claims))

\* C5 as amended: with a displayname attribute of non-empty value next to the
\* emailaddress, name and Role attributes the claims record has that email,
\* subject and roles in order, the call reaches the token issuer and a token
\* it returns carries them; without the displayname attribute the same claims
\* record is built but the call fails on the mandatory attributes and no token
\* is issued.
C5_FourAttributesIssueToken ==
    /\ (Scanned /\ azRun.used # 0
           /\ IsPermutationOf(Attributes, {AttrEmail, AttrName, AttrRoles, AttrDisplayName})) =>
           /\ ClaimsCarry(azRun.claims)
           /\ azRun.steps = <<"validate", "map", "sign">>
           /\ (azRun.err = NoErr =>
                  /\ azRun.token # EmptyString
                  /\ ClaimsCarry(azRun.token[1].claims)
                  /\ azRun.user.ID = AttrEmail.Values[1])
           /\ (azRun.err # NoErr => HasPrefix(azRun.err, <<"Failed to issue JWT token with ">>))
    /\ (Scanned /\ azRun.used # 0
           /\ IsPermutationOf(Attributes, {AttrEmail, AttrName, AttrRoles})) =>
           /\ ClaimsCarry(azRun.claims)
           /\ HasPrefix(azRun.err, MandatoryFailure)
           /\ azRun.token = EmptyString

C5_Witness ==
    /\ pc = "done"
    /\ Scanned
    /\ azRun.used # 0
    /\ IsPermutationOf(Attributes, {AttrEmail, AttrName, AttrRoles, AttrDisplayName})
    /\ Attributes[1] = AttrRoles
    /\ azRun.err = NoErr
    /\ ClaimsCarry(userToken[1].claims)
    /\ ret.ok

\* the errors of all bindings, in registration order
BindingErrors ==
    [i \in 1..Len(m.Azure.ServiceProviders) |->
        ParseXMLResponse(m.Azure.ServiceProviders[i], m.Azure.IDPMetadata, Decoded.bytes).err]

\* C6: when every binding fails, the request is rejected and the message
\* handed to the render step holds every binding's error exactly once, joined
\* in registration order.
C6_AllErrorsJoined ==
    (Scanned /\ \A i \in 1..Len(m.Azure.ServiceProviders) : ~Accepts(i)) =>
        /\ azRun.err = <<"The Azure AD validation failures: ">> \o Join(BindingErrors, <<", ">>)
        /\ uiArgs.Message = azRun.err
        /\ ~uiArgs.Authenticated
        /\ ((pc \in {"wrapup", "done"} /\ uiErr = NoErr) => w.body[1].args.Message = azRun.err)
        /\ (pc = "done" => ret = Rejected)

C6_Witness ==
    /\ pc = "done"
    /\ Scanned
    /\ Len(m.Azure.ServiceProviders) = 2
    /\ ~Accepts(1)
    /\ ~Accepts(2)
    /\ BindingErrors[1] # BindingErrors[2]
    /\ uiErr = NoErr
    /\ w.body[1].args.Message =
           <<"The Azure AD validation failures: ">> \o BindingErrors[1] \o <<", ">>
               \o BindingErrors[2]
    /\ ret = Rejected

\* the SAMLResponse field holds a symbol outside the base64 alphabet
NotBase64(str) == \E i \in 1..Len(str) : str[i] = IllegalSymbol

\* C7: a wrong content type, a missing or empty SAMLResponse and a
\* SAMLResponse that is not base64 are rejected with their protocol error, in
\* that order of precedence, before any binding is tried and whatever else the
\* body holds.
C7_ProtocolChecks ==
    azRun # Nil =>
        LET contentType == HeaderGet(r, "Content-Type")
            field == FormValue(r, "SAMLResponse")
            protocolError ==
                \/ contentType # FormContentType
                \/ field = EmptyString
                \/ NotBase64(field)
        IN  /\ contentType # FormContentType => azRun.err = ErrWrongContentType
            /\ (contentType = FormContentType /\ field = EmptyString) =>
                   azRun.err = ErrNoSAMLResponse
            /\ (contentType = FormContentType /\ field # EmptyString /\ NotBase64(field)) =>
                   /\ HasPrefix(azRun.err, ErrBase64)
                   /\ Len(azRun.err) > Len(ErrBase64)
            /\ protocolError =>
                   /\ azRun.tried = <<>>
                   /\ azRun.steps = <<>>
                   /\ azRun.token = EmptyString
                   /\ ~userAuthenticated
                   /\ uiArgs.Message = azRun.err
                   /\ (pc = "done" => ret = Rejected)
            /\ ~protocolError => azRun.tried # <<>>

\* the content type is wrong and the field is missing: the content type decides
C7_Witness ==
    /\ pc = "done"
    /\ azRun # Nil
    /\ HeaderGet(r, "Content-Type") = <<"application/json">>
    /\ "SAMLResponse" \notin DOMAIN r.Form
    /\ "RelayState" \in DOMAIN r.Form
    /\ uiArgs.Message = ErrWrongContentType
    /\ ret = Rejected

\* an illegal symbol after well-formed base64 is rejected before any binding
C7_WitnessBase64 ==
    /\ pc = "done"
    /\ azRun # Nil
    /\ HeaderGet(r, "Content-Type") = FormContentType
    /\ Len(FormValue(r, "SAMLResponse")) = 2
    /\ NotBase64(FormValue(r, "SAMLResponse"))
    /\ azRun.tried = <<>>
    /\ ret = Rejected

\* C8: a request that is not a POST, or a POST with neither the Origin nor the
\* Referer pattern, never reaches AzureIdp.Authenticate, is rendered with an
\* empty message and is rejected.
C8_NotEligible ==
    (pc \in {"render", "wrapup", "done"}
        /\ \/ r.Method # "POST"
           \/ /\ ~Contains(HeaderGet(r, "Origin"), OriginPattern)
              /\ ~Contains(HeaderGet(r, "Referer"), RefererPattern)) =>
        /\ azRun = Nil
        /\ trace[2] = "skip"
        /\ uiArgs.Message = EmptyString
        /\ ~uiArgs.Authenticated
        /\ ((pc \in {"wrapup", "done"} /\ uiErr = NoErr) =>
               /\ w.body[1].args.Message = EmptyString
               /\ ~w.body[1].args.Authenticated)
        /\ (pc = "done" => ret = Rejected)

\* a GET from the identity provider with a valid response is not looked at
C8_Witness ==
    /\ pc = "done"
    /\ r.Method = "GET"
    /\ Contains(HeaderGet(r, "Origin"), OriginPattern)
    /\ FormValue(r, "SAMLResponse") = EncodeToString(<<GoodResponse>>)
    /\ azRun = Nil
    /\ uiErr = NoErr
    /\ w.body[1].args.Message = EmptyString
    /\ ret = Rejected

\* a POST whose headers carry no pattern where the gate looks for it
C8_WitnessPost ==
    /\ pc = "done"
    /\ r.Method = "POST"
    /\ Contains(HeaderGet(r, "Referer"), OriginPattern)
    /\ Len(HeaderGet(r, "Origin")) > 0
    /\ FormValue(r, "SAMLResponse") = EncodeToString(<<GoodResponse>>)
    /\ azRun = Nil
    /\ ret = Rejected

\* C9: in every run the render step executes exactly once, after the pipeline
\* and before the result is returned, and a render error leaves the pass/fail
\* result what the pipeline made it.
C9_RenderOnce ==
    /\ (pc \in {"idle", "auth", "render"} => (~w.committed /\ w.body = <<>>))
    /\ (pc \in {"idle", "auth", "render", "wrapup"} => ret = Nil)
    /\ (pc = "render" => trace \in {<<"enter", "azure">>, <<"enter", "skip">>})
    /\ (pc = "wrapup" =>
           /\ trace \in {<<"enter", "azure", "render">>, <<"enter", "skip", "render">>}
           /\ w.committed
           /\ Len(w.body) = 1)
    /\ (pc = "done" =>
           /\ trace \in {<<"enter", "azure", "render", "return">>,
                         <<"enter", "skip", "render", "return">>}
           /\ w.committed
           /\ Len(w.body) = 1
           /\ ret.ok = userAuthenticated
           /\ ret.ok = (azRun # Nil /\ azRun.err = NoErr))

\* the render step failed and the request still passed
C9_Witness ==
    /\ pc = "done"
    /\ uiErr # NoErr
    /\ w.status = 500
    /\ ret.ok

\* C10: a request ends either with a non-empty identity, success and the
\* Authorization header set and no WWW-Authenticate header, or with the empty
\* identity, failure and WWW-Authenticate set to "Bearer" and no Authorization
\* header; the failure message is in the render arguments, never in the header.
\* The headers are those of the handler's header map.
C10_OutcomeShapes ==
    pc = "done" =>
        /\ \/ /\ ret.ok
              /\ ret.user # EmptyUser
              /\ ret.user.ID # EmptyString
              /\ "Authorization" \in DOMAIN w.header
              /\ w.header["Authorization"] = <<"Bearer ">> \o userToken
              /\ "WWW-Authenticate" \notin DOMAIN w.header
           \/ /\ ~ret.ok
              /\ ret.user = EmptyUser
              /\ "WWW-Authenticate" \in DOMAIN w.header
              /\ w.header["WWW-Authenticate"] = <<"Bearer">>
              /\ "Authorization" \notin DOMAIN w.header
        /\ (err # NoErr => (~ret.ok /\ uiArgs.Message = err))

\* a failed request whose message went to the render step
C10_Witness ==
    /\ pc = "done"
    /\ ~ret.ok
    /\ err # NoErr
    /\ uiErr = NoErr
    /\ w.body[1].args.Message = err
    /\ w.header["WWW-Authenticate"] = <<"Bearer">>

-----------------------------------------------------------------------------
(* The expiry of the claims *)

\* the positions, in scan order, of the MaxSessionDuration attributes of the
\* current assertion that have a value, split by whether strconv.Atoi takes
\* the first value
SessionAt ==
    {i \in 1..Len(Attributes) :
        /\ Len(Attributes[i].Values) > 0
        /\ HasSuffix(Attributes[i].Name, SuffixMaxSessionDuration)}

NumericAt == {i \in SessionAt : Atoi(Attributes[i].Values[1]).ok}

NonNumericAt == SessionAt \ NumericAt

\* the integer of the last numeric MaxSessionDuration attribute
LastDuration ==
    Atoi(Attributes[CHOOSE i \in NumericAt : \A j \in NumericAt : j <= i].Values[1]).n

\* the response was validated and its attributes were scanned
Mapped == Scanned /\ azRun.used # 0

\* C11: when the assertion has a MaxSessionDuration attribute whose first value
\* parses as an integer, the expiry of the claims (and of an issued token) is
\* the issuance time plus the integer of the last such attribute, in seconds.
C11_SessionDurationSetsExpiry ==
    (Mapped /\ NumericAt # {}) =>
        /\ azRun.claims.ExpiresAt = azRun.now + LastDuration
        /\ (azRun.token # EmptyString =>
               azRun.token[1].claims.ExpiresAt = azRun.now + LastDuration)

\* C12 as stated: a MaxSessionDuration attribute whose first value is not
\* numeric does not abort the authentication, and the expiry of the claims is
\* the default of issuance time + 900 seconds wherever the attribute occurs.
C12_NonNumericFallsBackToDefault ==
    (Mapped /\ NonNumericAt # {}) =>
        /\ azRun.claims.Email = AttrEmail.Values[1]
        /\ (azRun.claims.Name # EmptyString => azRun.steps = <<"validate", "map", "sign">>)
        /\ azRun.claims.ExpiresAt = azRun.now + DefaultExpiry

\* C12 as amended: the attribute does not abort the authentication (the
\* attributes after it are still scanned, and the call reaches the token
\* issuer when the mandatory attributes are there); it leaves the expiry as it
\* was: the default of issuance time + 900 seconds when no numeric
\* MaxSessionDuration attribute occurs in the assertion, and otherwise the
\* expiry set by the last numeric one.
C12_NonNumericSkipped ==
    (Mapped /\ NonNumericAt # {}) =>
        /\ azRun.claims.Email = AttrEmail.Values[1]
        /\ azRun.claims.Name =
               (IF \E i \in 1..Len(Attributes) : Attributes[i] = AttrDisplayName
                THEN AttrDisplayName.Values[1] ELSE EmptyString)
        /\ (azRun.claims.Name # EmptyString =>
               /\ azRun.steps = <<"validate", "map", "sign">>
               /\ (azRun.err = NoErr \/ HasPrefix(azRun.err, <<"Failed to issue JWT token with ">>)))
        /\ azRun.claims.ExpiresAt =
               (IF NumericAt = {} THEN azRun.now + DefaultExpiry
                ELSE azRun.now + (Wrap(LastDuration * Second) \div Second))

\* a request has succeeded whose assertion has a non-numeric MaxSessionDuration
\* attribute before the displayname attribute and no numeric one
C12_Witness ==
    /\ pc = "done"
    /\ ret.ok
    /\ Mapped
    /\ NonNumericAt # {}
    /\ NumericAt = {}
    /\ \E i \in NonNumericAt : Attributes[i].Values[1] = <<"1", "h">>
    /\ azRun.token[1].claims.ExpiresAt = azRun.now + 900

\* a request has succeeded with the expiry of a numeric attribute that a
\* non-numeric one follows
C12_WitnessAfterNumeric ==
    /\ pc = "done"
    /\ ret.ok
    /\ Mapped
    /\ \E i \in NumericAt, j \in NonNumericAt : i < j
    /\ azRun.token[1].claims.ExpiresAt = azRun.now + 3600

\* C19: every issued token expires strictly later than it was issued.
C19_ExpiryAfterIssuance ==
    (azRun # Nil /\ azRun.token # EmptyString) =>
        azRun.token[1].claims.ExpiresAt > azRun.now

-----------------------------------------------------------------------------
(* AzureIdp.Validate *)

\* AuthProvider.Validate has returned, and AzureIdp.Validate within it
AzureValidated == phase \in {"ready", "failed"} /\ m.Azure # Nil

\* the error was the one of AzureIdp.Validate (plugin.go:100)
AzureValidateFailed ==
    /\ phase = "failed"
    /\ Len(valErr) > 2
    /\ valErr[1] = m.Name
    /\ valErr[2] = ": "

\* the metadata URL of the configuration, when its location is a URL
IsMetadataURL == m.Azure.IdpMetadataURL # Nil

\* C13: the metadata/entity URL of every registered binding is the configured
\* entity ID whenever one is configured, and the URL the IdP metadata was
\* fetched from only when none is, for a URL and for a file metadata location.
C13_EntityIDTakesPriority ==
    (phase = "ready" /\ m.Azure # Nil) =>
        \A i \in 1..Len(m.Azure.ServiceProviders) :
            /\ m.Azure.EntityID # EmptyString =>
                   m.Azure.ServiceProviders[i].MetadataURL = UrlParse(m.Azure.EntityID).url
            /\ (IsMetadataURL
                  /\ m.Azure.ServiceProviders[i].MetadataURL = m.Azure.IdpMetadataURL) =>
                   m.Azure.EntityID = EmptyString

\* the configuration is one of those AzureIdp.Validate has to refuse
Refusable ==
    \/ Len(m.Azure.AssertionConsumerServiceURLs) = 0
    \/ m.Azure.TenantID = ""
    \/ m.Azure.ApplicationID = ""
    \/ m.Azure.ApplicationName = ""
    \/ m.Azure.IdpSignCertLocation = EmptyString
    \/ m.Azure.IdpSignCertLocation = MissingCertLocation
    \/ m.Azure.IdpMetadataLocation \in
           {<<"https", "://", UnreachableHost, "/metadata.xml">>,
            <<"https", "://", "idp.example", "/", BadEscape>>,
            BadMetadataFile, <<"/etc/saml/missing.xml">>}

\* C14: AzureIdp.Validate returns an error for every configuration without an
\* ACS URL, tenant ID, application ID or application name, without a loadable
\* signing certificate or without IdP metadata that can be fetched and parsed;
\* when it returns an error the registry is empty; when it succeeds the
\* registry has one binding per configured ACS URL, in configuration order,
\* each accepting IdP-initiated responses.
C14_ValidateAllOrNothing ==
    /\ (phase \in {"ready", "failed", "crashed"} /\ m.Azure # Nil /\ Refusable) =>
           AzureValidateFailed
    /\ AzureValidateFailed => m.Azure.ServiceProviders = <<>>
    /\ (phase = "ready" /\ m.Azure # Nil) =>
           /\ ~Refusable
           /\ Len(m.Azure.ServiceProviders) = Len(m.Azure.AssertionConsumerServiceURLs)
           /\ \A i \in 1..Len(m.Azure.ServiceProviders) :
                  /\ UrlString(m.Azure.ServiceProviders[i].AcsURL)
                         = m.Azure.AssertionConsumerServiceURLs[i]
                  /\ m.Azure.ServiceProviders[i].AllowIDPInitiated

\* two ACS URLs have been registered in the configured order
C14_Witness ==
    /\ phase = "ready"
    /\ Len(m.Azure.ServiceProviders) = 2
    /\ m.Azure.AssertionConsumerServiceURLs[1] # m.Azure.AssertionConsumerServiceURLs[2]
    /\ UrlString(m.Azure.ServiceProviders[2].AcsURL) = m.Azure.AssertionConsumerServiceURLs[2]

\* the metadata could not be parsed and the registry is empty
C14_WitnessRefused ==
    /\ AzureValidateFailed
    /\ m.Azure.IdpMetadataLocation = BadMetadataFile
    /\ Len(m.Azure.AssertionConsumerServiceURLs) = 2
    /\ m.Azure.ServiceProviders = <<>>

\* C16: after a successful AzureIdp.Validate the key descriptors of the first
\* IdP SSO descriptor of the bindings' metadata contain the loaded signing
\* certificate, for signing; a binding validates a response only with that
\* certificate in its trust list, and with metadata that has no IdP SSO
\* descriptor no binding validates any response.
C16_CertificateInTrustList ==
    (phase = "ready" /\ m.Azure # Nil) =>
        /\ Len(m.Azure.IDPMetadata.IDPSSODescriptors) > 0 =>
               \E j \in 1..Len(m.Azure.IDPMetadata.IDPSSODescriptors[1].KeyDescriptors) :
                   m.Azure.IDPMetadata.IDPSSODescriptors[1].KeyDescriptors[j]
                       = [Use |-> "signing", Certificate |-> IdpCert]
        /\ (azRun # Nil /\ azRun.used # 0) =>
               /\ Len(m.Azure.IDPMetadata.IDPSSODescriptors) > 0
               /\ IdpCert \in TrustedCerts(m.Azure.IDPMetadata)
        /\ Len(m.Azure.IDPMetadata.IDPSSODescriptors) = 0 =>
               /\ TrustedCerts(m.Azure.IDPMetadata) = {}
               /\ ~userAuthenticated

\* a response signed with the loaded certificate has been validated by the
\* second of two bindings
C16_Witness ==
    /\ pc = "done"
    /\ ret.ok
    /\ azRun.used = 2
    /\ Decoded.bytes[1].SignedBy = IdpCert
    /\ IdpCert \in TrustedCerts(m.Azure.IDPMetadata)

\* with metadata without an IdP SSO descriptor a response signed with the
\* loaded certificate has been refused by every binding
C16_WitnessNoDescriptor ==
    /\ pc = "done"
    /\ m.Azure.IdpMetadataLocation = NoDescriptorMetadataFile
    /\ Len(m.Azure.ServiceProviders) = 2
    /\ Decoded.bytes[1].SignedBy = IdpCert
    /\ azRun.tried = <<1, 2>>
    /\ azRun.used = 0
    /\ ret = Rejected

\* C20: AzureIdp.Validate returns, with success or with an error, for every
\* configuration: it never crashes.
C20_ValidateNeverCrashes == phase # "crashed"

-----------------------------------------------------------------------------
(* The scan of the claims mapper *)

\* the attributes of all statements of the current assertion, in received order
RECURSIVE Flatten(_)
Flatten(statements) ==
    IF Len(statements) = 0 THEN <<>>
    ELSE Head(statements).Attributes \o Flatten(Tail(statements))

AllAttributes == Flatten(Decoded.bytes[1].AttributeStatements)

\* the positions of the attributes with a value whose name ends in suffix
WithSuffix(suffix) ==
    {i \in 1..Len(AllAttributes) :
        /\ Len(AllAttributes[i].Values) > 0
        /\ HasSuffix(AllAttributes[i].Name, suffix)}

\* the first value of the last such attribute, "" when there is none
LastFirstValue(suffix) ==
    IF WithSuffix(suffix) = {} THEN EmptyString
    ELSE AllAttributes[CHOOSE i \in WithSuffix(suffix) :
                           \A j \in WithSuffix(suffix) : j <= i].Values[1]

\* all values of the Role attributes among the first n attributes, in order
RECURSIVE RoleValues(_)
RoleValues(n) ==
    IF n = 0 THEN <<>>
    ELSE IF HasSuffix(AllAttributes[n].Name, SuffixRole)
    THEN RoleValues(n - 1) \o AllAttributes[n].Values
    ELSE RoleValues(n - 1)

\* C17: every attribute of every statement is scanned in received order and
\* attributes without values are skipped; each single-valued claim is the first
\* value of the last attribute with a value and that suffix, over all
\* statements; the roles are all values of all Role attributes, in scan order.
C17_LastWinsRolesAccumulate ==
    Mapped =>
        /\ azRun.claims.Name = LastFirstValue(SuffixDisplayName)
        /\ azRun.claims.Email = LastFirstValue(SuffixEmailAddress)
        /\ azRun.claims.Origin = LastFirstValue(SuffixIdentityProvider)
        /\ azRun.claims.Subject = LastFirstValue(SuffixName)
        /\ azRun.claims.Roles = RoleValues(Len(AllAttributes))

\* the email was set in the first statement and again, by a two-valued
\* attribute, in the second, which ends with an emailaddress attribute
\* without values
C17_Witness ==
    /\ pc = "done"
    /\ Mapped
    /\ Len(Decoded.bytes[1].AttributeStatements[1].Attributes) = 1
    /\ Decoded.bytes[1].AttributeStatements[1].Attributes[1] = AttrEmail
    /\ Decoded.bytes[1].AttributeStatements[2].Attributes = <<AttrEmails, AttrNoEmail>>
    /\ azRun.claims.Email = <<"c@d.com">>

\* roles of both statements have been collected
C17_WitnessRoles ==
    /\ pc = "done"
    /\ Mapped
    /\ Len(Decoded.bytes[1].AttributeStatements[1].Attributes) > 0
    /\ Len(Decoded.bytes[1].AttributeStatements[2].Attributes) > 0
    /\ azRun.claims.Roles = << <<"dev">>, <<"admin">>, <<"user">> >>

-----------------------------------------------------------------------------
(* Validation before issuance *)

\* C18: AzureIdp.Authenticate returns a token or an identity only when a
\* registered binding has validated the decoded response of the same request,
\* the claims are those of the validated assertion, and the call went through
\* validate, map and sign in that order; when the call was not made, or no
\* binding validated the response, there is no token, no identity and no
\* Authorization header.
C18_NoTokenWithoutValidation ==
    /\ (azRun # Nil /\ (azRun.token # EmptyString \/ azRun.user # Nil)) =>
           /\ azRun.used \in 1..Len(m.Azure.ServiceProviders)
           /\ Accepts(azRun.used)
           /\ azRun.tried = [j \in 1..azRun.used |-> j]
           /\ azRun.steps = <<"validate", "map", "sign">>
           /\ azRun.token # EmptyString
           /\ azRun.user # Nil
           /\ azRun.token[1].claims.Email = LastFirstValue(SuffixEmailAddress)
           /\ azRun.token[1].claims.Name = LastFirstValue(SuffixDisplayName)
           /\ azRun.token[1].claims.Roles = RoleValues(Len(AllAttributes))
           /\ azRun.user.ID = LastFirstValue(SuffixEmailAddress)
    /\ (pc # "idle" /\ (azRun = Nil \/ azRun.used = 0
                          \/ \A i \in 1..Len(m.Azure.ServiceProviders) : ~Accepts(i))) =>
           /\ userToken = EmptyString
           /\ userIdentity = Nil
           /\ ~userAuthenticated
           /\ "Authorization" \notin DOMAIN w.header
           /\ (azRun # Nil => azRun.token = EmptyString /\ azRun.user = Nil)

\* a token has been issued after the first binding refused the response and
\* the second validated it, and the handler has set the Authorization header
C18_Witness ==
    /\ pc = "done"
    /\ azRun # Nil
    /\ azRun.token # EmptyString
    /\ azRun.tried = <<1, 2>>
    /\ azRun.steps = <<"validate", "map", "sign">>
    /\ "Authorization" \in DOMAIN w.header
    /\ w.header["Authorization"] = <<"Bearer ">> \o azRun.token

\* every binding has refused a well-formed response: nothing was issued
C18_WitnessRefused ==
    /\ pc = "done"
    /\ azRun # Nil
    /\ azRun.tried = <<1, 2>>
    /\ azRun.used = 0
    /\ Decoded.bytes[1].kind = "Response"
    /\ "Authorization" \notin DOMAIN w.header
    /\ ret = Rejected

-----------------------------------------------------------------------------
(* Calls that run side by side *)

\* the call of a request that runs alone on provider mod, from entry to return
AloneAfterRender(mod, c) == AuthenticateWrapUp(mod, c).call

AloneAfterPipeline(mod, c) == AloneAfterRender(mod, AuthenticateRender(mod, c).call)

Alone(mod, req, now, signErr) ==
    AloneAfterPipeline(mod, AuthenticatePipeline(mod, AuthenticateEnter(mod, req).call,
                                                 now, signErr).call)

\* the clock and the signing outcome a finished call met
NowOf(c) == IF c.azRun = Nil THEN 0 ELSE c.azRun.now

SignErrOf(c) == IF c.azRun = Nil THEN FALSE ELSE c.azRun.signErr

\* the outcome of a finished call, the expiry timestamp left out
OutcomeSansExpiry(c) ==
    [ret |-> c.ret,
     authenticated |-> c.userAuthenticated,
     status |-> c.w.status,
     claims |-> IF c.azRun = Nil THEN Nil
                ELSE IF c.azRun.claims = Nil THEN Nil
                ELSE [c.azRun.claims EXCEPT !.ExpiresAt = 0],
     message |-> IF c.azRun = Nil THEN c.uiArgs.Message
                 ELSE IF c.azRun.claims = Nil THEN c.uiArgs.Message
                 ELSE IF c.uiArgs.Message = EmptyString THEN EmptyString
                 ELSE <<c.uiArgs.Message[1]>>]

FinishedAsAlone ==
    \A i \in DOMAIN inflight :
        inflight[i].pc = "done" =>
            /\ inflight[i] = Alone(m, inflight[i].r, NowOf(inflight[i]), SignErrOf(inflight[i]))
            /\ inflight[i].ret.ok = (inflight[i].r = ParallelGood /\ ~SignErrOf(inflight[i]))
            /\ inflight[i].ret.ok =>
                   /\ inflight[i].ret.user.ID = AttrEmail.Values[1]
                   /\ inflight[i].azRun.claims.Name = AttrDisplayName.Values[1]
            /\ ~inflight[i].ret.ok => inflight[i].ret = Rejected
            /\ \A j \in DOMAIN inflight :
                   (inflight[j].pc = "done" /\ inflight[j].r = inflight[i].r
                       /\ SignErrOf(inflight[j]) = SignErrOf(inflight[i])) =>
                       OutcomeSansExpiry(inflight[j]) = OutcomeSansExpiry(inflight[i])

\* a step of a running provider writes none of its settings, and a call that
\* returns leaves nothing behind
SharedStateUnwritten ==
    phase = "ready" =>
        /\ m' = m
        /\ env' = env
        /\ phase' = phase
        /\ valErr' = valErr
        /\ \A i \in DOMAIN inflight :
               (inflight[i].pc = "done" /\ inflight'[i].pc # "done") => inflight'[i] = IdleCall

\* C15: after Validate, interleaved Authenticate calls write neither the
\* registry, the IdP metadata and certificate, the JWT parameters nor the UI
\* settings; every call ends as it does when it runs alone; a call that has
\* returned leaves no state behind, and the same request ends the same way
\* whenever it is served, apart from the expiry timestamp.
C15_ParallelCallsIndependent == [][SharedStateUnwritten]_vars /\ []FinishedAsAlone

\* the same request has been served by two calls whose steps interleaved, at
\* different times, with the same identity and different expiry
C15_Witness ==
    /\ inflight[1].pc = "done"
    /\ inflight[2].pc = "done"
    /\ inflight[1].r = ParallelGood
    /\ inflight[2].r = ParallelGood
    /\ inflight[1].ret.ok
    /\ inflight[2].ret.ok
    /\ inflight[1].ret.user = inflight[2].ret.user
    /\ inflight[1].azRun.claims.ExpiresAt # inflight[2].azRun.claims.ExpiresAt

\* a rejected call and a successful call are in flight at the same time
C15_WitnessInterleaved ==
    /\ inflight[1].pc = "wrapup"
    /\ inflight[1].r = ParallelWrongCert
    /\ inflight[2].pc = "render"
    /\ inflight[2].r = ParallelGood
    /\ inflight[2].userAuthenticated

====
